---- MODULE Spec2Model ----
(***************************************************************************)
(* Model of the redai completion core: the character-level diff engine     *)
(* (src/diff.rs), the patch parser and the autocomplete orchestration      *)
(* (src/coder.rs), the offset converter (src/utils.rs), the application    *)
(* of an edit list to the editor buffer (src/app.rs), the snapshot tracker *)
(* (src/tracker.rs) with the Coder's map of trackers, and the event loop   *)
(* of the application with its autocomplete tasks (src/app.rs).            *)
(*                                                                         *)
(* A Rust String is modelled as what it is: a sequence of UTF-8 bytes.     *)
(* Characters are Unicode scalar values (code points).  Byte offsets and   *)
(* character offsets are therefore different numbers as soon as a string   *)
(* holds a multi-byte character.                                           *)
(***************************************************************************)
EXTENDS Integers, Sequences, FiniteSets, TLC

VARIABLES pc, old, new, changes, edits, patch, cursor, parsed, original, buffer, pending,
          editor_cursor, marks, history,
          snapshots, now, new_content, updates, summary,
          file_trackers, take_n, last_files, context_lines, context,
          filename, disk, self_update, watch_rx, tasks, autocomplete_handle, autocomplete_rx,
          coder_lock, opened_editors, opening, opens, watched,
          search_panel, left_panel_focused, search_handle, search_tasks, search_rx

\* the fields of one Tracker, the clock, and the argument and result of the last call
trackerVars == <<snapshots, now, new_content, updates, summary>>

\* the Coder's trackers, the argument and result of the last last_modified_files,
\* and the window and result of the last build_context
coderVars == <<file_trackers, take_n, last_files, context_lines, context>>

\* the open file, the files on disk, the watcher's channel, the autocomplete tasks
\* with their handle and channel, the holder of the Mutex around the Coder, the
\* editors of the files opened before, and the file open_file is about to open
appVars == <<filename, disk, self_update, watch_rx, tasks, autocomplete_handle,
             autocomplete_rx, coder_lock, opened_editors, opening, opens, watched,
             search_panel, left_panel_focused, search_handle, search_tasks, search_rx>>

\* the search panel, the focus, and the global searches with their handle and
\* the channel of their updates
searchVars == <<search_panel, left_panel_focused, search_handle, search_tasks, search_rx>>

\* the state outside one completion
serviceVars == <<trackerVars, coderVars, appVars>>

\* the state of one completion, the program counter aside
completionVars == <<old, new, changes, edits, patch, cursor, parsed, original, buffer, pending,
                    editor_cursor, marks, history>>

vars == <<pc, completionVars, serviceVars>>

-----------------------------------------------------------------------------
(* Bounds of the model *)

MaxLen == 3

MaxPieces == 5

MaxCursor == 2

MaxContent == 3

MaxSearch == 2

MaxReplace == 2

-----------------------------------------------------------------------------
(* Results of operations that can fail or panic *)

Some(v) == [some |-> TRUE, val |-> v]

None == [some |-> FALSE]

IsPanic(r) == r.tag = "Panic"

-----------------------------------------------------------------------------
(* UTF-8: characters, strings as byte sequences *)

\* 'a', 'b' and the two-byte Cyrillic letter U+044F
Alphabet == {97, 98, 1103}

len_utf8(c) == IF c < 128 THEN 1 ELSE IF c < 2048 THEN 2 ELSE IF c < 65536 THEN 3 ELSE 4

EncodeChar(c) ==
    IF c < 128 THEN <<c>>
    ELSE IF c < 2048 THEN <<192 + (c \div 64), 128 + (c % 64)>>
    ELSE <<224 + (c \div 4096), 128 + ((c \div 64) % 64), 128 + (c % 64)>>

RECURSIVE Str(_)
\* the String holding the characters cs
Str(cs) == IF cs = <<>> THEN <<>> ELSE EncodeChar(Head(cs)) \o Str(Tail(cs))

LeadLen(b) == IF b < 128 THEN 1 ELSE IF b < 224 THEN 2 ELSE IF b < 240 THEN 3 ELSE 4

DecodeAt(s, i) ==
    IF s[i] < 128 THEN s[i]
    ELSE IF s[i] < 224 THEN (s[i] - 192) * 64 + (s[i + 1] - 128)
    ELSE (s[i] - 224) * 4096 + (s[i + 1] - 128) * 64 + (s[i + 2] - 128)

RECURSIVE CharsFrom(_, _)
CharsFrom(s, i) ==
    IF i > Len(s) THEN <<>>
    ELSE <<DecodeAt(s, i)>> \o CharsFrom(s, i + LeadLen(s[i]))

\* s.chars(): the characters of a String
Chars(s) == CharsFrom(s, 1)

\* s.chars().count()
CharCount(s) == Len(Chars(s))

\* str::is_char_boundary: index 0, the length, or a byte that is no continuation byte
IsCharBoundary(s, i) ==
    \/ i = 0
    \/ i = Len(s)
    \/ i < Len(s) /\ ~(s[i + 1] \in 128..191)

\* &s[a..b]: panics (None) unless a <= b <= len and both lie on a character boundary
Slice(s, a, b) ==
    IF a <= b /\ b <= Len(s) /\ IsCharBoundary(s, a) /\ IsCharBoundary(s, b)
    THEN Some(SubSeq(s, a + 1, b))
    ELSE None

RECURSIVE SeqsUpTo(_, _)
\* all sequences over S of length 0..n
SeqsUpTo(S, n) ==
    IF n = 0 THEN {<<>>}
    ELSE LET shorter == SeqsUpTo(S, n - 1)
         IN shorter \cup {Append(q, x) : q \in {r \in shorter : Len(r) = n - 1}, x \in S}

\* the Strings of at most n characters over the characters A
StringsOver(A, n) == {Str(cs) : cs \in SeqsUpTo(A, n)}

Strings(n) == StringsOver(Alphabet, n)

-----------------------------------------------------------------------------
(* Offset converter, src/utils.rs *)

RECURSIVE OffsetWalk(_, _, _)
OffsetWalk(n, chars, byte_index) ==
    IF n = 0 THEN [tag |-> "Ok", val |-> byte_index]
    ELSE IF chars = <<>> THEN [tag |-> "Panic"]
    ELSE OffsetWalk(n - 1, Tail(chars), byte_index + len_utf8(Head(chars)))

offset_to_byte(o, s) == OffsetWalk(o, Chars(s), 0)

-----------------------------------------------------------------------------
(* Diff engine, src/diff.rs *)

Min(x, y) == IF x <= y THEN x ELSE y

RECURSIVE Distance(_, _)
\* the number of insertions and deletions of a shortest edit script from a to b
Distance(a, b) ==
    IF a = <<>> THEN Len(b)
    ELSE IF b = <<>> THEN Len(a)
    ELSE IF Head(a) = Head(b) THEN Distance(Tail(a), Tail(b))
    ELSE 1 + Min(Distance(Tail(a), b), Distance(a, Tail(b)))

Change(tag, c) == [tag |-> tag, value |-> EncodeChar(c)]

RECURSIVE ShortestScripts(_, _)
\* every shortest edit script from the characters a to the characters b, one change per character
ShortestScripts(a, b) ==
    IF a = <<>> /\ b = <<>> THEN {<<>>}
    ELSE LET d == Distance(a, b)
             eq == IF a # <<>> /\ b # <<>> /\ Head(a) = Head(b)
                   THEN {<<Change("Equal", Head(a))>> \o s : s \in ShortestScripts(Tail(a), Tail(b))}
                   ELSE {}
             del == IF a # <<>> /\ 1 + Distance(Tail(a), b) = d
                    THEN {<<Change("Delete", Head(a))>> \o s : s \in ShortestScripts(Tail(a), b)}
                    ELSE {}
             ins == IF b # <<>> /\ 1 + Distance(a, Tail(b)) = d
                    THEN {<<Change("Insert", Head(b))>> \o s : s \in ShortestScripts(a, Tail(b))}
                    ELSE {}
         IN eq \cup del \cup ins

\* Between two equal runs the deletions come before the insertions: the library
\* reports such a group as one Replace operation, iterated old side first.
DeletesFirst(s) ==
    \A i \in 1..(Len(s) - 1) : ~(s[i].tag = "Insert" /\ s[i + 1].tag = "Delete")

\* the number of leading characters a and b share
common_prefix_len(a, b) ==
    CHOOSE k \in 0..Min(Len(a), Len(b)) :
        /\ \A i \in 1..k : a[i] = b[i]
        /\ k < Min(Len(a), Len(b)) => a[k + 1] # b[k + 1]

\* the number of trailing characters a and b share
common_suffix_len(a, b) ==
    CHOOSE k \in 0..Min(Len(a), Len(b)) :
        /\ \A i \in 1..k : a[Len(a) - k + i] = b[Len(b) - k + i]
        /\ k < Min(Len(a), Len(b)) => a[Len(a) - k] # b[Len(b) - k]

\* a run of unchanged characters
EqualRun(cs) == [i \in 1..Len(cs) |-> Change("Equal", cs[i])]

\* TextDiff::from_chars(old, new).iter_all_changes(): the change streams the Myers
\* diff may report.  The algorithm first reports the common prefix of the two texts
\* as unchanged, then sets their common suffix aside; which shortest script it
\* picks for what lies between is the library's choice.
TextDiff_from_chars(o, n) ==
    LET a == Chars(o)
        b == Chars(n)
        p == common_prefix_len(a, b)
        a1 == SubSeq(a, p + 1, Len(a))
        b1 == SubSeq(b, p + 1, Len(b))
        q == common_suffix_len(a1, b1)
        a2 == SubSeq(a1, 1, Len(a1) - q)
        b2 == SubSeq(b1, 1, Len(b1) - q)
    IN {EqualRun(SubSeq(a, 1, p)) \o s \o EqualRun(SubSeq(a1, Len(a1) - q + 1, Len(a1))) :
          s \in {t \in ShortestScripts(a2, b2) : DeletesFirst(t)}}

Edit(start, end, text, kind) == [start |-> start, end |-> end, text |-> text, kind |-> kind]

Last(q) == q[Len(q)]

\* ChangeTag::Delete arm: extend the previous edit or push a new Delete
OnDelete(es, start, end) ==
    IF es # <<>> /\ Last(es).end = start /\ Last(es).text = <<>>
    THEN [es EXCEPT ![Len(es)].end = end]
    ELSE Append(es, Edit(start, end, <<>>, "Delete"))

\* mutant: the Insert arm never extends the previous edit
OnInsert_always_pushes(es, old_pos_chars, value) ==
    Append(es, Edit(old_pos_chars, old_pos_chars, value, "Insert"))

\* ChangeTag::Insert arm: append the text to the previous edit or push a new Insert
OnInsert(es, old_pos_chars, value) ==
    IF es # <<>> /\ Last(es).end = old_pos_chars
    THEN [es EXCEPT ![Len(es)].text = @ \o value]
    ELSE Append(es, Edit(old_pos_chars, old_pos_chars, value, "Insert"))

\* mutant: the length of the change in bytes
value_byte_len(value) == Len(value)

\* let value_char_len = value.chars().count()
value_char_len(value) == CharCount(value)

\* mutant: the Delete arm forgets to move old_pos_chars to the end of the deletion
AdvanceEqualOnly(change, old_pos_chars) ==
    IF change.tag = "Equal" THEN old_pos_chars + value_char_len(change.value) ELSE old_pos_chars

\* old_pos_chars after one change: Equal and Delete advance it, Insert does not
Advance(change, old_pos_chars) ==
    IF change.tag = "Insert" THEN old_pos_chars ELSE old_pos_chars + value_char_len(change.value)

\* mutant: the Equal arm is missing and unchanged text falls into the Delete arm
MatchTagNoEqualArm(es, change, old_pos_chars) ==
    IF change.tag = "Insert" THEN OnInsert(es, old_pos_chars, change.value)
    ELSE OnDelete(es, old_pos_chars, old_pos_chars + value_char_len(change.value))

\* match change.tag(): the edit list after one change
MatchTag(es, change, old_pos_chars) ==
    CASE change.tag = "Equal" -> es
      [] change.tag = "Delete" ->
           OnDelete(es, old_pos_chars, old_pos_chars + value_char_len(change.value))
      [] change.tag = "Insert" -> OnInsert(es, old_pos_chars, change.value)

RECURSIVE WalkChanges(_, _, _)
\* the loop over diff.iter_all_changes()
WalkChanges(cs, es, old_pos_chars) ==
    IF cs = <<>> THEN es
    ELSE WalkChanges(Tail(cs), MatchTag(es, Head(cs), old_pos_chars),
                     Advance(Head(cs), old_pos_chars))

\* mutant: the Insert half of a split keeps the range of the replaced text
split_replace_edit_keeps_range(edit) ==
    IF edit.start = edit.end \/ edit.text = <<>>
    THEN <<edit>>
    ELSE <<Edit(edit.start, edit.end, <<>>, "Delete"),
           Edit(edit.start, edit.end, edit.text, "Insert")>>

\* mutant: the Insert half of a split goes behind the replaced text
split_replace_edit_at_end(edit) ==
    IF edit.start = edit.end \/ edit.text = <<>>
    THEN <<edit>>
    ELSE <<Edit(edit.start, edit.end, <<>>, "Delete"),
           Edit(edit.end, edit.end, edit.text, "Insert")>>

split_replace_edit(edit) ==
    IF edit.start = edit.end \/ edit.text = <<>>
    THEN <<edit>>
    ELSE <<Edit(edit.start, edit.end, <<>>, "Delete"),
           Edit(edit.start, edit.start, edit.text, "Insert")>>

RECURSIVE FlatMapSplit(_)
\* edits.iter().flat_map(split_replace_edit).collect()
FlatMapSplit(es) ==
    IF es = <<>> THEN <<>> ELSE split_replace_edit(Head(es)) \o FlatMapSplit(Tail(es))

\* mutant: old is sliced at the character offsets, taken for byte offsets
FillDeleteText_offsets_as_bytes(edit, o) ==
    IF edit.start # edit.end /\ edit.kind = "Delete" /\ edit.end <= Len(o)
    THEN LET sl == Slice(o, edit.start, edit.end)
         IN IF sl.some
            THEN [tag |-> "Ok", val |-> [edit EXCEPT !.text = sl.val]]
            ELSE [tag |-> "Panic"]
    ELSE [tag |-> "Ok", val |-> edit]

\* the body of the loop that fills in the text of a Delete: the edit, or Panic
FillDeleteText(edit, o) ==
    IF edit.start # edit.end /\ edit.kind = "Delete"
    THEN LET byte_start == offset_to_byte(edit.start, o)
             byte_end == offset_to_byte(edit.end, o)
         IN IF IsPanic(byte_start) \/ IsPanic(byte_end) THEN [tag |-> "Panic"]
            ELSE IF byte_start.val <= Len(o) /\ byte_end.val <= Len(o)
                 THEN LET sl == Slice(o, byte_start.val, byte_end.val)
                      IN IF sl.some
                         THEN [tag |-> "Ok", val |-> [edit EXCEPT !.text = sl.val]]
                         ELSE [tag |-> "Panic"]
                 ELSE [tag |-> "Ok", val |-> edit]
    ELSE [tag |-> "Ok", val |-> edit]

\* compute_text_edits(old, new), given the change stream the diff reported
compute_text_edits(o, diff) ==
    LET result == FlatMapSplit(WalkChanges(diff, <<>>, 0))
        filled == [i \in 1..Len(result) |-> FillDeleteText(result[i], o)]
    IN IF \E i \in 1..Len(result) : IsPanic(filled[i])
       THEN [tag |-> "Panic"]
       ELSE [tag |-> "Ok", val |-> [i \in 1..Len(result) |-> filled[i].val]]

-----------------------------------------------------------------------------
(* Patch parser, src/coder.rs; the tokens of src/prompts.rs *)

\* "<|SEARCH|>"
STOKEN == <<60, 124, 83, 69, 65, 82, 67, 72, 124, 62>>

\* "<|DIVIDE|>"
DTOKEN == <<60, 124, 68, 73, 86, 73, 68, 69, 124, 62>>

\* "<|REPLACE|>"
RTOKEN == <<60, 124, 82, 69, 80, 76, 65, 67, 69, 124, 62>>

\* "<|cursor|>"
CTOKEN == <<60, 124, 99, 117, 114, 115, 111, 114, 124, 62>>

\* the byte offsets at which needle occurs in hay
Matches(hay, needle) ==
    {i \in 0..(Len(hay) - Len(needle)) :
        hay[i + 1] = needle[1] /\ SubSeq(hay, i + 1, i + Len(needle)) = needle}

\* str::find: the byte offset of the first occurrence
Find(hay, needle) ==
    LET hits == Matches(hay, needle)
    IN IF hits = {} THEN None ELSE Some(CHOOSE i \in hits : \A j \in hits : i <= j)

RECURSIVE RemoveAll(_, _)
\* s.replace(tok, ""): every occurrence removed, scanning left to right
RemoveAll(s, tok) ==
    LET f == Find(s, tok)
    IN IF ~f.some THEN s
       ELSE SubSeq(s, 1, f.val) \o RemoveAll(SubSeq(s, f.val + Len(tok) + 1, Len(s)), tok)

saturating_sub(x, y) == IF x >= y THEN x - y ELSE 0

\* mutant: the length of the text before the cursor taken in bytes
before_bytes_len(before) == Len(before)

\* let before_chars_len = before.chars().count()
before_chars_len(before) == CharCount(before)

Err(token) == [tag |-> "Err", missing |-> token]

\* parse_patch(patch, cursor): Ok (start, search, replace), Err naming a token, or Panic
parse_patch(p, cur) ==
    LET search_start == Find(p, STOKEN)
        replace_divider == Find(p, DTOKEN)
        replace_end == Find(p, RTOKEN)
    IN IF ~search_start.some THEN Err(STOKEN)
       ELSE IF ~replace_divider.some THEN Err(DTOKEN)
       ELSE IF ~replace_end.some THEN Err(RTOKEN)
       ELSE LET search == Slice(p, search_start.val + Len(STOKEN), replace_divider.val)
            IN IF ~search.some THEN [tag |-> "Panic"]
               ELSE LET cursor_pos == Find(search.val, CTOKEN)
                    IN IF ~cursor_pos.some THEN Err(CTOKEN)
                       ELSE LET before == Slice(search.val, 0, cursor_pos.val)
                                replace == Slice(p, replace_divider.val + Len(DTOKEN), Len(p))
                            IN IF ~before.some \/ ~replace.some THEN [tag |-> "Panic"]
                               ELSE [tag |-> "Ok",
                                     start |-> saturating_sub(cur, before_chars_len(before.val)),
                                     search |-> RemoveAll(search.val, CTOKEN),
                                     replace |-> RemoveAll(RemoveAll(replace.val, RTOKEN), CTOKEN)]

-----------------------------------------------------------------------------
(* Change projector, src/diff.rs *)

\* the order of two edits under sort_by_key(|e| e.start), or reversed
StartInOrder(a, b, descending) ==
    IF descending THEN a.start >= b.start ELSE a.start <= b.start

RECURSIVE SortedBy(_, _, _)
\* a stable sort of es: each edit goes behind the edits that may stay before it
SortedBy(es, acc, descending) ==
    IF es = <<>> THEN acc
    ELSE LET e == Head(es)
             k == Cardinality({i \in 1..Len(acc) : StartInOrder(acc[i], e, descending)})
         IN SortedBy(Tail(es), SubSeq(acc, 1, k) \o <<e>> \o SubSeq(acc, k + 1, Len(acc)),
                     descending)

ChangedRange(start, end, kind) == [start |-> start, end |-> end, kind |-> kind]

RECURSIVE ProjectRanges_counting_bytes(_, _)
\* mutant: the lengths of the texts taken in bytes
ProjectRanges_counting_bytes(es, offset_shift) ==
    IF es = <<>> THEN <<>>
    ELSE LET edit == Head(es)
             start == edit.start + offset_shift
             n == Len(edit.text)
         IN <<ChangedRange(start, start + n, edit.kind)>>
            \o ProjectRanges_counting_bytes(Tail(es),
                             IF edit.kind = "Insert" THEN offset_shift + n
                             ELSE saturating_sub(offset_shift, n))

RECURSIVE ProjectRanges(_, _)
\* the loop over sorted_edits, with the running offset_shift
ProjectRanges(es, offset_shift) ==
    IF es = <<>> THEN <<>>
    ELSE LET edit == Head(es)
             start == edit.start + offset_shift
             n == CharCount(edit.text)
         IN <<ChangedRange(start, start + n, edit.kind)>>
            \o ProjectRanges(Tail(es),
                             IF edit.kind = "Insert" THEN offset_shift + n
                             ELSE saturating_sub(offset_shift, n))

compute_changed_ranges_normalized(es) == ProjectRanges(SortedBy(es, <<>>, FALSE), 0)

-----------------------------------------------------------------------------
(* Coder::autocomplete, src/coder.rs *)

ShiftEdit(edit, start) == Edit(edit.start + start, edit.end + start, edit.text, edit.kind)

\* mutant: the comparison of the sort the other way round
sort_ascending(es) == SortedBy(es, <<>>, FALSE)

\* mutant: sorted ascending and then reversed, which turns edits of equal start around
sort_descending_reversing(es) ==
    LET asc == SortedBy(es, <<>>, FALSE)
    IN [i \in 1..Len(asc) |-> asc[Len(asc) + 1 - i]]

\* edits.sort_by(|a, b| b.start.cmp(&a.start)): stable, descending by start
sort_descending(es) == SortedBy(es, <<>>, TRUE)

\* mutant: the edits keep their offsets into the search text
map_unshifted(es, start) == es

\* the edits mapped into buffer coordinates
map_shifted(es, start) == [i \in 1..Len(es) |-> ShiftEdit(es[i], start)]

\* autocomplete after parse_patch succeeded with p: Ok edits or Panic, given the
\* change stream the diff of (search, replace) reported
autocomplete_edits(p, diff) ==
    LET r == compute_text_edits(p.search, diff)
    IN IF IsPanic(r) THEN r
       ELSE [tag |-> "Ok", val |-> sort_descending(map_shifted(r.val, p.start))]

-----------------------------------------------------------------------------
(* Coder::build_context, src/coder.rs; byte_to_point of src/utils.rs *)

\* s.insert_str(idx, t): panics (None) unless idx lies on a character boundary
insert_str(s, idx, t) ==
    IF idx <= Len(s) /\ IsCharBoundary(s, idx)
    THEN Some(SubSeq(s, 1, idx) \o t \o SubSeq(s, idx + 1, Len(s)))
    ELSE None

\* a line without the "\r" that stood before its "\n"
StripCr(line) ==
    IF line # <<>> /\ line[Len(line)] = 13 THEN SubSeq(line, 1, Len(line) - 1) ELSE line

RECURSIVE lines(_)
\* str::lines: the text split at every "\n"; nothing follows a final "\n"
lines(s) ==
    IF s = <<>> THEN <<>>
    ELSE LET nl == Find(s, <<10>>)
         IN IF ~nl.some THEN <<s>>
            ELSE <<StripCr(SubSeq(s, 1, nl.val))>> \o lines(SubSeq(s, nl.val + 2, Len(s)))

RECURSIVE join(_)
\* lines.join("\n")
join(ls) ==
    IF ls = <<>> THEN <<>>
    ELSE IF Len(ls) = 1 THEN ls[1]
    ELSE ls[1] \o <<10>> \o join(Tail(ls))

RECURSIVE PointWalk(_, _, _, _, _)
\* the loop of byte_to_point over s.chars()
PointWalk(chars, b, byte_pos, line, col) ==
    IF chars = <<>> THEN <<line, col>>
    ELSE LET ch_len == len_utf8(Head(chars))
         IN IF byte_pos + ch_len > b THEN <<line, col>>
            ELSE IF Head(chars) = 10
                 THEN PointWalk(Tail(chars), b, byte_pos + ch_len, line + 1, 0)
                 ELSE PointWalk(Tail(chars), b, byte_pos + ch_len, line, col + 1)

\* byte_to_point(b, s): the line and the column of the byte index b
byte_to_point(b, s) == PointWalk(Chars(s), b, 0, 0, 0)

\* mutant: the window is cut at both ends of the file, nothing is added on the
\* other side
window_without_compensation(cursor_line, n, max_row) ==
    [start_line |-> saturating_sub(cursor_line, n),
     end_line |-> Min(cursor_line + n, max_row)]

\* the first and the last line of the window of n lines around the cursor line
window(cursor_line, n, max_row) ==
    LET before == IF cursor_line < n THEN n
                  ELSE IF cursor_line + n > max_row THEN n + ((cursor_line + n) - max_row)
                  ELSE n
        after == IF cursor_line < n THEN n + (n - cursor_line) ELSE n
    IN [start_line |-> saturating_sub(cursor_line, before),
        end_line |-> Min(cursor_line + after, max_row)]

\* build_context(original, cursor_byte, n): Ok with the excerpt and its start,
\* Err when the excerpt lacks the sentinel, or Panic
build_context(text, cursor_byte, n) ==
    LET inserted == insert_str(text, cursor_byte, CTOKEN)
    IN IF ~inserted.some THEN [tag |-> "Panic"]
       ELSE LET ls == lines(inserted.val)
                cursor_line == byte_to_point(cursor_byte, inserted.val)[1]
                max_row == saturating_sub(Len(ls), 1)
                w == window(cursor_line, n, max_row)
            IN IF w.start_line > w.end_line + 1 \/ w.end_line >= Len(ls) THEN [tag |-> "Panic"]
               ELSE LET excerpt == join(SubSeq(ls, w.start_line + 1, w.end_line + 1))
                        cursor_relative == Find(excerpt, CTOKEN)
                    IN IF ~cursor_relative.some THEN Err(CTOKEN)
                       ELSE IF cursor_relative.val > cursor_byte THEN [tag |-> "Panic"]
                       ELSE [tag |-> "Ok", context |-> excerpt,
                             start |-> cursor_byte - cursor_relative.val]

-----------------------------------------------------------------------------
(* The editor buffer, as src/app.rs uses it *)

\* one edit of the batch on the live buffer: the new content, or None when the
\* offset lies outside the buffer
ApplyToBuffer(b, edit) ==
    LET cs == Chars(b)
        n == CharCount(edit.text)
    IN IF edit.kind = "Insert"
       THEN IF edit.start > Len(cs) THEN None
            ELSE Some(Str(SubSeq(cs, 1, edit.start) \o Chars(edit.text)
                          \o SubSeq(cs, edit.start + 1, Len(cs))))
       ELSE IF edit.start + n > Len(cs) THEN None
            ELSE Some(Str(SubSeq(cs, 1, edit.start) \o SubSeq(cs, edit.start + n + 1, Len(cs))))

\* an editor: its content, cursor and marks, and the batches its history can undo
Editor(content, cur, ms, hist) ==
    [content |-> content, cursor |-> cur, marks |-> ms, history |-> hist]

\* Editor::new(language, content, theme)
Editor_new(content) == Editor(content, 0, <<>>, <<>>)

\* EditBatch { edits, state_before, state_after }
EditBatch(es, state_before, state_after) ==
    [edits |-> es, state_before |-> state_before, state_after |-> state_after]

RECURSIVE ApplyAll(_, _)
\* the edits of a batch applied in their order: the new content, or None when an
\* offset lies outside the buffer
ApplyAll(b, es) ==
    IF es = <<>> THEN Some(b)
    ELSE LET r == ApplyToBuffer(b, Head(es))
         IN IF r.some THEN ApplyAll(r.val, Tail(es)) ELSE None

\* the edits that take a batch back: each edit turned around, last edit first
InverseEdits(es) ==
    [i \in 1..Len(es) |->
        [es[Len(es) + 1 - i] EXCEPT !.kind = IF @ = "Insert" THEN "Delete" ELSE "Insert"]]

\* self.editor.apply(Undo {}): the last batch of the history is taken back and the
\* cursor returns to where it was before the batch; None when an offset of the
\* batch lies outside the buffer
Undo(ed) ==
    IF ed.history = <<>> THEN Some(ed)
    ELSE LET batch == Last(ed.history)
             r == ApplyAll(ed.content, InverseEdits(batch.edits))
         IN IF r.some
            THEN Some(Editor(r.val, batch.state_before, ed.marks,
                             SubSeq(ed.history, 1, Len(ed.history) - 1)))
            ELSE None

-----------------------------------------------------------------------------
(* Line diff for the summary of recent edits, src/diff.rs *)

\* the lines of a text, each with its line end
RECURSIVE SplitLines(_)
SplitLines(s) ==
    IF s = <<>> THEN <<>>
    ELSE LET nl == Find(s, <<10>>)
         IN IF ~nl.some THEN <<s>>
            ELSE <<SubSeq(s, 1, nl.val + 1)>> \o SplitLines(SubSeq(s, nl.val + 2, Len(s)))

LineChange(tag, line) == [tag |-> tag, value |-> line]

RECURSIVE ShortestLineScripts(_, _)
\* every shortest edit script from the lines a to the lines b, one change per line
ShortestLineScripts(a, b) ==
    IF a = <<>> /\ b = <<>> THEN {<<>>}
    ELSE LET d == Distance(a, b)
             eq == IF a # <<>> /\ b # <<>> /\ Head(a) = Head(b)
                   THEN {<<LineChange("Equal", Head(a))>> \o s :
                           s \in ShortestLineScripts(Tail(a), Tail(b))}
                   ELSE {}
             del == IF a # <<>> /\ 1 + Distance(Tail(a), b) = d
                    THEN {<<LineChange("Delete", Head(a))>> \o s :
                            s \in ShortestLineScripts(Tail(a), b)}
                    ELSE {}
             ins == IF b # <<>> /\ 1 + Distance(a, Tail(b)) = d
                    THEN {<<LineChange("Insert", Head(b))>> \o s :
                            s \in ShortestLineScripts(a, Tail(b))}
                    ELSE {}
         IN eq \cup del \cup ins

\* TextDiff::configure().algorithm(Myers).diff_lines(old, new).iter_all_changes()
diff_lines(o, n) ==
    {s \in ShortestLineScripts(SplitLines(o), SplitLines(n)) : DeletesFirst(s)}

\* format!("{}", change): the line, with a line end added when it has none
DisplayChange(change) ==
    change.value \o (IF Last(change.value) = 10 THEN <<>> ELSE <<10>>)

RECURSIVE diff_without_unchanged(_)
\* diff_without_unchanged(old, new), given the change stream of the line diff
diff_without_unchanged(diff) ==
    IF diff = <<>> THEN <<>>
    ELSE (CASE Head(diff).tag = "Delete" -> <<45>> \o DisplayChange(Head(diff))
            [] Head(diff).tag = "Insert" -> <<43>> \o DisplayChange(Head(diff))
            [] Head(diff).tag = "Equal" -> <<>>)
         \o diff_without_unchanged(Tail(diff))

-----------------------------------------------------------------------------
(* Snapshot tracker, src/tracker.rs; time is counted in seconds *)

\* Duration::from_secs(60 * 30)
max_age == 1800

max_versions == 50

Snapshot(timestamp, content) == [timestamp |-> timestamp, content |-> content]

\* mutant: a tracker made without its first snapshot
Tracker_new_empty(initial, t) == <<>>

\* Tracker::new(initial) at the instant t
Tracker_new(initial, t) == <<Snapshot(t, initial)>>

\* Tracker::latest
latest(snaps) == IF snaps = <<>> THEN <<>> ELSE Last(snaps).content

\* mutant: the snapshot before the latest one
previous(snaps) ==
    IF Len(snaps) < 2 THEN None ELSE Some(snaps[Len(snaps) - 1].content)

\* Tracker::oldest
oldest(snaps) == IF snaps = <<>> THEN None ELSE Some(snaps[1].content)

\* mutant: no snapshot is dropped for its age
Retain_keeping_all(snaps, t) == snaps

\* self.snapshots.retain(|s| now.duration_since(s.timestamp) <= self.max_age)
Retain(snaps, t) == SelectSeq(snaps, LAMBDA s : t - s.timestamp <= max_age)

\* mutant: the excess is cut off at the end of the list
cleanup_drops_newest(snaps, t) ==
    LET kept == Retain(snaps, t)
    IN IF Len(kept) > max_versions THEN SubSeq(kept, 1, max_versions) ELSE kept

\* Tracker::cleanup at the instant t
cleanup(snaps, t) ==
    LET kept == Retain(snaps, t)
    IN IF Len(kept) > max_versions
       THEN LET excess == Len(kept) - max_versions
            IN SubSeq(kept, excess + 1, Len(kept))
       ELSE kept

\* if self.latest() == new_content { return; }
update_returns_early(snaps, c) == latest(snaps) = c

\* mutant: the comparison with the latest snapshot is missing
Tracker_update_always_pushes(snaps, c, t) == cleanup(Append(snaps, Snapshot(t, c)), t)

\* Tracker::update(new_content) at the instant t
Tracker_update(snaps, c, t) ==
    IF update_returns_early(snaps, c) THEN snaps
    ELSE cleanup(Append(snaps, Snapshot(t, c)), t)

-----------------------------------------------------------------------------
(* The Coder's trackers, src/coder.rs: a map from the paths tracked to Trackers *)

\* Coder::update(path, content) at the instant t
Coder_update(trackers, path, content, t) ==
    LET tracker == IF path \in DOMAIN trackers THEN trackers[path]
                   ELSE Tracker_new(content, t)
    IN (path :> Tracker_update(tracker, content, t)) @@ trackers

\* self.file_trackers.iter(): a HashMap yields its entries in any order
HashMapOrders(trackers) ==
    LET keys == DOMAIN trackers
    IN {q \in [1..Cardinality(keys) -> keys] :
          \A i, j \in 1..Cardinality(keys) : i # j => q[i] # q[j]}

RECURSIVE SortedByEarliest(_, _)
\* mutant: sort_by_key without Reverse
SortedByEarliest(fs, acc) ==
    IF fs = <<>> THEN acc
    ELSE LET f == Head(fs)
             k == Cardinality({i \in 1..Len(acc) : acc[i].timestamp <= f.timestamp})
         IN SortedByEarliest(Tail(fs), SubSeq(acc, 1, k) \o <<f>> \o SubSeq(acc, k + 1, Len(acc)))

RECURSIVE SortedByLatest(_, _)
\* files_with_latest.sort_by_key(|&(_, ts)| Reverse(ts)): stable, latest first
SortedByLatest(fs, acc) ==
    IF fs = <<>> THEN acc
    ELSE LET f == Head(fs)
             k == Cardinality({i \in 1..Len(acc) : acc[i].timestamp >= f.timestamp})
         IN SortedByLatest(Tail(fs), SubSeq(acc, 1, k) \o <<f>> \o SubSeq(acc, k + 1, Len(acc)))

\* Coder::last_modified_files(n), the map iterated in the order iter
last_modified_files(trackers, n, iter) ==
    LET with_snapshot == SelectSeq(iter, LAMBDA path : trackers[path] # <<>>)
        files_with_latest ==
            [i \in 1..Len(with_snapshot) |->
                [path |-> with_snapshot[i],
                 timestamp |-> Last(trackers[with_snapshot[i]]).timestamp]]
        sorted == SortedByLatest(files_with_latest, <<>>)
    IN [i \in 1..Min(n, Len(sorted)) |-> sorted[i].path]

-----------------------------------------------------------------------------
(* The diff engine on its own: compute_text_edits on every pair of strings *)

Idle == <<>>

NotParsed == [tag |-> "None"]

\* no context has been built
NoContext == [tag |-> "None"]

\* no tracker in use
TrackerIdle ==
    snapshots = <<>> /\ now = 0 /\ new_content = Idle /\ updates = 0 /\ summary = Idle

\* Coder::new: no file is tracked
CoderIdle ==
    /\ file_trackers = <<>> /\ take_n = 0 /\ last_files = <<>>
    /\ context_lines = 0 /\ context = NoContext

\* SearchPanel::new: nothing was searched for
SearchPanel_new ==
    [results |-> <<>>, selected |-> None, search_in_progress |-> FALSE,
     search_progress |-> None]

\* the search panel as App::new leaves it: no search runs, the editor has the focus
SearchIdle ==
    /\ search_panel = SearchPanel_new /\ left_panel_focused = FALSE
    /\ search_handle = None /\ search_tasks = <<>> /\ search_rx = <<>>

\* no application around the component
AppIdle ==
    /\ filename = Idle /\ disk = <<>> /\ self_update = FALSE /\ watch_rx = <<>>
    /\ tasks = <<>> /\ autocomplete_handle = None /\ autocomplete_rx = <<>>
    /\ coder_lock = Idle
    /\ opened_editors = <<>> /\ opening = None /\ opens = 0 /\ watched = 0
    /\ SearchIdle

ServicesIdle == TrackerIdle /\ CoderIdle /\ AppIdle

\* no completion in progress
CompletionIdle ==
    /\ old = Idle /\ new = Idle /\ changes = <<>> /\ edits = <<>>
    /\ patch = Idle /\ cursor = 0 /\ parsed = NotParsed
    /\ original = Idle /\ buffer = Idle /\ pending = Idle
    /\ editor_cursor = 0 /\ marks = <<>> /\ history = <<>>

InitDiff ==
    /\ pc = "start"
    /\ ServicesIdle
    /\ old \in Strings(MaxLen)
    /\ new \in Strings(MaxLen)
    /\ changes = <<>>
    /\ edits = <<>>
    /\ patch = Idle /\ cursor = 0 /\ parsed = NotParsed
    /\ original = Idle /\ buffer = Idle /\ pending = Idle
    /\ editor_cursor = 0 /\ marks = <<>> /\ history = <<>>

\* let edits = compute_text_edits(old, new)
ComputeTextEdits ==
    /\ pc = "start"
    /\ UNCHANGED serviceVars
    /\ \E diff \in TextDiff_from_chars(old, new) :
         LET r == compute_text_edits(old, diff)
         IN /\ changes' = diff
            /\ edits' = IF IsPanic(r) THEN <<>> ELSE r.val
            /\ pc' = IF IsPanic(r) THEN "panic" ELSE "done"
    /\ UNCHANGED <<old, new, patch, cursor, parsed, original, buffer, pending, editor_cursor, marks, history>>

\* let changed_ranges = compute_changed_ranges_normalized(&edits)
ComputeChangedRanges ==
    /\ pc = "done"
    /\ UNCHANGED serviceVars
    /\ marks' = compute_changed_ranges_normalized(edits)
    /\ pc' = "projected"
    /\ UNCHANGED <<old, new, changes, edits, patch, cursor, parsed, original, buffer, pending,
                   editor_cursor, history>>

NextDiff == ComputeTextEdits \/ ComputeChangedRanges

SpecDiff == InitDiff /\ [][NextDiff]_vars

-----------------------------------------------------------------------------
(* One completion, from the request to the edits applied to the editor *)

\* 'a' and the two-byte Cyrillic letter U+044F
EditorAlphabet == {97, 1103}

Contents == StringsOver(EditorAlphabet, MaxContent)

\* answers that are no patch: a token left out, or the tokens out of their order
MalformedResponses ==
    {CTOKEN \o DTOKEN \o RTOKEN,
     STOKEN \o CTOKEN \o RTOKEN,
     STOKEN \o CTOKEN \o DTOKEN,
     DTOKEN \o RTOKEN \o STOKEN}

\* what the model may answer: a search text with the sentinel somewhere in it (or
\* left out), a divider and a replacement; the search text need not be the buffer's
ModelResponses ==
    LET searches == SeqsUpTo(EditorAlphabet, MaxSearch)
        replaces == StringsOver(EditorAlphabet, MaxReplace)
        WithSentinel(st) ==
            {Str(SubSeq(st, 1, k)) \o CTOKEN \o Str(SubSeq(st, k + 1, Len(st))) : k \in 0..Len(st)}
    IN {STOKEN \o sc \o DTOKEN \o r \o RTOKEN :
          sc \in UNION {WithSentinel(st) : st \in searches}, r \in replaces}
       \cup {STOKEN \o Str(st) \o DTOKEN \o r \o RTOKEN : st \in searches, r \in replaces}
       \cup MalformedResponses

Init ==
    /\ pc = "start"
    /\ ServicesIdle
    /\ buffer \in Contents
    /\ original = buffer
    /\ cursor \in 0..(MaxContent + 1)
    /\ cursor <= CharCount(buffer) + 1
    /\ patch = Idle /\ parsed = NotParsed
    /\ old = Idle /\ new = Idle /\ changes = <<>> /\ edits = <<>>
    /\ pending = <<>> /\ editor_cursor = cursor /\ marks = <<>> /\ history = <<>>

\* Coder::autocomplete up to the request to the model: the cursor is converted
\* to a byte offset, which panics behind the end of the text.  The contents here
\* are single lines without a token, for which build_context returns the line
\* with the sentinel inserted and cannot fail; its result only feeds the prompt.
AutocompleteStart ==
    /\ pc = "start"
    /\ UNCHANGED serviceVars
    /\ pc' = IF IsPanic(offset_to_byte(cursor, original)) THEN "panic" ELSE "awaiting"
    /\ UNCHANGED <<old, new, changes, edits, patch, cursor, parsed, original, buffer, pending,
                   editor_cursor, marks, history>>

\* self.llm.chat(messages).await? returns an error
ChatFails ==
    /\ pc = "awaiting"
    /\ UNCHANGED serviceVars
    /\ pc' = "failed"
    /\ UNCHANGED <<old, new, changes, edits, patch, cursor, parsed, original, buffer, pending,
                   editor_cursor, marks, history>>

\* Coder::autocomplete from the model's response on: parse, diff, shift, sort
AutocompleteFinish ==
    /\ pc = "awaiting"
    /\ UNCHANGED serviceVars
    /\ \E response \in ModelResponses :
         \E p \in {parse_patch(response, cursor)} :
            /\ patch' = response
            /\ parsed' = p
            /\ IF p.tag = "Ok"
               THEN \E diff \in TextDiff_from_chars(p.search, p.replace) :
                      \E r \in {autocomplete_edits(p, diff)} :
                         /\ changes' = diff
                         /\ edits' = IF IsPanic(r) THEN <<>> ELSE r.val
                         /\ pc' = IF IsPanic(r) THEN "panic" ELSE "computed"
               ELSE /\ pc' = IF p.tag = "Err" THEN "failed" ELSE "panic"
                    /\ UNCHANGED <<changes, edits>>
    /\ UNCHANGED <<old, new, cursor, original, buffer, pending, editor_cursor, marks, history>>

\* App::handle_autocomplete, Err arm: the error is printed
HandleAutocompleteErr ==
    /\ pc = "failed"
    /\ UNCHANGED serviceVars
    /\ pc' = "reported"
    /\ UNCHANGED <<old, new, changes, edits, patch, cursor, parsed, original, buffer, pending,
                   editor_cursor, marks, history>>

\* mutant: apply_edits without its early return, so that an empty list reaches
\* changed_ranges.last().unwrap()
ApplyEditsBegin_without_early_return ==
    /\ pc = "computed"
    /\ UNCHANGED serviceVars
    /\ IF edits = <<>>
       THEN pc' = "panic" /\ UNCHANGED pending
       ELSE pc' = "applying" /\ pending' = edits
    /\ UNCHANGED <<old, new, changes, edits, patch, cursor, parsed, original, buffer,
                   editor_cursor, marks, history>>

\* App::apply_edits up to apply_batch: nothing to do for an empty list
ApplyEditsBegin ==
    /\ pc = "computed"
    /\ UNCHANGED serviceVars
    /\ IF edits = <<>>
       THEN pc' = "applied" /\ UNCHANGED pending
       ELSE pc' = "applying" /\ pending' = edits
    /\ UNCHANGED <<old, new, changes, edits, patch, cursor, parsed, original, buffer,
                   editor_cursor, marks, history>>

\* apply_batch applies the next edit of the batch to the live buffer; after the
\* last one apply_edits sets the cursor and the marks
ApplyBatchStep ==
    /\ pc = "applying"
    /\ UNCHANGED serviceVars
    /\ pending # <<>>
    /\ LET b == ApplyToBuffer(buffer, Head(pending))
           changed_ranges == compute_changed_ranges_normalized(edits)
       IN IF ~b.some
          THEN pc' = "panic" /\ UNCHANGED <<buffer, pending, editor_cursor, marks, history>>
          ELSE /\ buffer' = b.val
               /\ pending' = Tail(pending)
               /\ IF Tail(pending) = <<>>
                  THEN /\ pc' = "applied"
                       /\ editor_cursor' = Last(changed_ranges).end
                       /\ marks' = changed_ranges
                       /\ history' = Append(history,
                                            EditBatch(edits, editor_cursor,
                                                      Last(changed_ranges).end))
                  ELSE UNCHANGED <<pc, editor_cursor, marks, history>>
    /\ UNCHANGED <<old, new, changes, edits, patch, cursor, parsed, original>>

Next ==
    \/ AutocompleteStart
    \/ ChatFails
    \/ AutocompleteFinish
    \/ HandleAutocompleteErr
    \/ ApplyEditsBegin
    \/ ApplyBatchStep

Spec == Init /\ [][Next]_vars

-----------------------------------------------------------------------------
(* Properties of compute_text_edits *)

RECURSIVE InsertedAt(_, _)
\* the characters the Insert edits of es place at offset p of the old text, in list order
InsertedAt(es, p) ==
    IF es = <<>> THEN <<>>
    ELSE (IF Head(es).kind = "Insert" /\ Head(es).start = p THEN Chars(Head(es).text) ELSE <<>>)
         \o InsertedAt(Tail(es), p)

DeletedAt(es, p) ==
    \E i \in 1..Len(es) : es[i].kind = "Delete" /\ es[i].start <= p /\ p < es[i].end

RECURSIVE ApplyFrom(_, _, _)
\* the old characters oc from offset p on, with the edits es applied at their offsets into oc
ApplyFrom(oc, es, p) ==
    IF p > Len(oc) THEN <<>>
    ELSE InsertedAt(es, p)
         \o (IF p < Len(oc) /\ ~DeletedAt(es, p) THEN <<oc[p + 1]>> ELSE <<>>)
         \o ApplyFrom(oc, es, p + 1)

ApplyToOld(o, es) == Str(ApplyFrom(Chars(o), es, 0))

\* the characters of s at the character offsets [a, b)
CharsBetween(s, a, b) == SubSeq(Chars(s), a + 1, b)

\* C1: round trip: the edits of compute_text_edits(old, new), applied to old at
\* their offsets into old, left to right, give exactly new.
C1_RoundTrip ==
    /\ pc # "panic"
    /\ pc = "done" => ApplyToOld(old, edits) = new

\* a replaced span in the middle: a Delete, an Insert and text kept on both sides
C1_Witness ==
    /\ pc = "done"
    /\ \E i, j \in 1..Len(edits) :
         /\ edits[i].kind = "Delete" /\ edits[j].kind = "Insert"
         /\ edits[i].start > 0 /\ edits[i].end < CharCount(old)

\* C4: every edit is a pure insertion (Insert, start = end, text not empty) or a
\* pure deletion (Delete, start < end, carrying the deleted text and no replacement).
C4_PureEdits ==
    pc = "done" =>
      \A i \in 1..Len(edits) :
        LET e == edits[i]
        IN /\ e.start <= e.end
           /\ \/ e.kind = "Insert" /\ e.start = e.end /\ e.text # <<>>
              \/ /\ e.kind = "Delete" /\ e.start < e.end
                 /\ Chars(e.text) = CharsBetween(old, e.start, e.end)

\* a deletion directly followed by an insertion at the same place was split in two
C4_Witness ==
    /\ pc = "done"
    /\ \E i \in 1..(Len(edits) - 1) :
         /\ edits[i].kind = "Delete" /\ edits[i + 1].kind = "Insert"
         /\ edits[i + 1].start = edits[i].start

\* C5: compute_text_edits(s, s) is the empty list.
C5_Idempotence == (pc = "done" /\ old = new) => edits = <<>>

C5_Witness == pc = "done" /\ old = new /\ CharCount(old) = MaxLen

C13_ProjectionMonotone ==
    pc = "projected" =>
      /\ \A i \in 1..(Len(marks) - 1) : marks[i].start <= marks[i + 1].start
      /\ \A i \in 1..Len(marks) : marks[i].end >= marks[i].start

\* C14: every Insert range [a, b) of the edits of compute_text_edits(old, new)
\* holds, in new, exactly the text of the Insert edit it was projected from.
C14_InsertRangesValid ==
    pc = "projected" =>
      \A i \in 1..Len(marks) :
        marks[i].kind = "Insert" =>
          /\ marks[i].end <= CharCount(new)
          /\ CharsBetween(new, marks[i].start, marks[i].end)
               = Chars(SortedBy(edits, <<>>, FALSE)[i].text)

OldPosAfter(cs, k) == Cardinality({j \in 1..k : cs[j].tag # "Insert"})

\* the number of Delete changes that end the first k changes of cs
DeleteRun(cs, k) ==
    LET kept == {j \in 0..k : j = 0 \/ cs[j].tag # "Delete"}
    IN k - (CHOOSE j \in kept : \A m \in kept : m <= j)

\* the changes k, k + 1 of the stream are a deletion directly followed by an insertion
DeleteThenInsert(k) == changes[k].tag = "Delete" /\ changes[k + 1].tag = "Insert"

C27_InsertAtEndOfDelete ==
    pc = "done" =>
      /\ \A k \in 1..(Len(changes) - 1) :
           DeleteThenInsert(k) =>
             \E i \in 1..(Len(edits) - 1) :
               /\ edits[i].kind = "Delete"
               /\ edits[i].end = OldPosAfter(changes, k)
               /\ edits[i + 1].kind = "Insert"
               /\ edits[i + 1].start = edits[i].end
               /\ edits[i + 1].end = edits[i].end
      /\ \A k \in 2..Len(changes) :
           (changes[k].tag = "Insert" /\ changes[k - 1].tag = "Equal") =>
             \E i \in 1..Len(edits) :
               /\ edits[i].kind = "Insert"
               /\ edits[i].start = OldPosAfter(changes, k)

\* p is a proper prefix of s
IsProperPrefix(p, s) == Len(p) < Len(s) /\ SubSeq(s, 1, Len(p)) = p

\* C28: when new is old followed by a non-empty suffix, the result is exactly one
\* edit, an Insert at char_count(old) carrying the suffix; when new is a proper
\* prefix of old, it is exactly one edit, a Delete over [char_count(new), char_count(old)).
C28_AppendAndTruncate ==
    pc = "done" =>
      /\ IsProperPrefix(old, new) =>
           edits = <<Edit(CharCount(old), CharCount(old),
                          SubSeq(new, Len(old) + 1, Len(new)), "Insert")>>
      /\ IsProperPrefix(new, old) =>
           /\ Len(edits) = 1
           /\ edits[1].kind = "Delete"
           /\ edits[1].start = CharCount(new)
           /\ edits[1].end = CharCount(old)

\* two characters are appended, the first of them the character old ends with
C28_Witness ==
    /\ pc = "done"
    /\ old # <<>>
    /\ IsProperPrefix(old, new)
    /\ CharCount(new) = CharCount(old) + 2
    /\ Chars(new)[CharCount(old) + 1] = Chars(old)[CharCount(old)]

\* C30: compute_changed_ranges_normalized gives the same ranges for the list
\* autocomplete returns (the edits shifted into the buffer and sorted descending
\* by start) as for the same edits in the ascending order compute_text_edits
\* produced them, also when a Delete and an Insert share a start.
C30_SameRangesForBothOrders ==
    pc = "projected" =>
      \A start \in 0..MaxCursor :
        /\ compute_changed_ranges_normalized(sort_descending(map_shifted(edits, start)))
             = compute_changed_ranges_normalized(map_shifted(edits, start))
        /\ start = 0 =>
             compute_changed_ranges_normalized(sort_descending(map_shifted(edits, start))) = marks

\* a Delete and an Insert at one start and a third edit before them: the list
\* sorted descending is not the list compute_text_edits produced
C30_Witness ==
    /\ pc = "projected"
    /\ sort_descending(edits) # edits
    /\ \E i \in 2..(Len(edits) - 1) :
         /\ edits[i].kind = "Delete" /\ edits[i + 1].kind = "Insert"
         /\ edits[i].start = edits[i + 1].start

-----------------------------------------------------------------------------
(* The change projector on its own: compute_changed_ranges_normalized on *)
(* every short list of pure edits, in any order                          *)

MaxEdits == 3

MaxStart == 2

\* the offset 30 is the one of test_compute_changed_ranges_normalized
ProjectStarts == 0..MaxStart \cup {30}

\* a one-byte character, and a two-byte character followed by a one-byte one
ProjectTexts == {Str(<<97>>), Str(<<1103, 97>>)}

\* pure edits: an Insert has start = end, a Delete carries the text it removes
PureEdits ==
    {Edit(st, st, t, "Insert") : st \in ProjectStarts, t \in ProjectTexts}
    \cup {Edit(st, st + CharCount(t), t, "Delete") : st \in ProjectStarts, t \in ProjectTexts}

InitProject ==
    /\ pc = "done"
    /\ ServicesIdle
    /\ edits \in SeqsUpTo(PureEdits, MaxEdits)
    /\ old = Idle /\ new = Idle /\ changes = <<>>
    /\ patch = Idle /\ cursor = 0 /\ parsed = NotParsed
    /\ original = Idle /\ buffer = Idle /\ pending = Idle
    /\ editor_cursor = 0 /\ marks = <<>> /\ history = <<>>

NextProject == ComputeChangedRanges

SpecProject == InitProject /\ [][NextProject]_vars

RECURSIVE ShiftBefore(_, _)
\* the shift in front of the i-th edit of es: 0 at first, raised by the length of
\* an Insert, lowered by the length of a Delete but never below 0
ShiftBefore(es, i) ==
    IF i = 1 THEN 0
    ELSE LET n == CharCount(es[i - 1].text)
             shift == ShiftBefore(es, i - 1)
         IN IF es[i - 1].kind = "Insert" THEN shift + n
            ELSE IF shift >= n THEN shift - n ELSE 0

\* C29: the ranges are those of the edits taken in ascending order of start with
\* a shift that starts at 0: each edit gives [start + shift, start + shift +
\* len(text)) with its kind; an Insert then adds len(text) to the shift, a Delete
\* subtracts it, stopping at 0.  A single Insert of one character at offset 30
\* gives exactly the range [30, 31) tagged Insert.
C29_ProjectorArithmetic ==
    pc = "projected" =>
      /\ \E f \in Permutations(1..Len(edits)) :
           LET es == [i \in 1..Len(edits) |-> edits[f[i]]]
           IN /\ \A i \in 1..(Len(es) - 1) : es[i].start <= es[i + 1].start
              /\ marks = [i \in 1..Len(es) |->
                            ChangedRange(es[i].start + ShiftBefore(es, i),
                                         es[i].start + ShiftBefore(es, i) + CharCount(es[i].text),
                                         es[i].kind)]
      /\ edits = <<Edit(30, 30, <<97>>, "Insert")>> => marks = <<ChangedRange(30, 31, "Insert")>>

\* a list given out of order, with a Delete longer than the shift in front of it
\* and an Insert of a two-byte character
C29_Witness ==
    /\ pc = "projected"
    /\ Len(edits) = 3
    /\ edits[1].start > edits[2].start
    /\ \E i \in 1..3 : edits[i].kind = "Delete" /\ edits[i].start = 30
    /\ \E i \in 1..3 : edits[i].kind = "Insert" /\ Len(edits[i].text) > CharCount(edits[i].text)
    /\ \E i \in 1..3 : marks[i].kind = "Delete" /\ marks[i].start = 31

\* the case of the test: one Insert of one character at offset 30
C29_WitnessTest == pc = "projected" /\ edits = <<Edit(30, 30, <<97>>, "Insert")>>

-----------------------------------------------------------------------------
(* The context builder on its own: build_context for every short text of a few *)
(* lines, every cursor in it and every small window                            *)

MaxText == 5

MaxContextLines == 2

\* 'a', the two-byte Cyrillic letter U+044F, and the line feed
ContextAlphabet == {97, 1103, 10}

ContextTexts == StringsOver(ContextAlphabet, MaxText)

InitContext ==
    /\ pc = "start"
    /\ original \in ContextTexts
    /\ cursor \in 0..MaxText
    /\ cursor <= CharCount(original)
    /\ context_lines \in 0..MaxContextLines
    /\ context = NoContext
    /\ file_trackers = <<>> /\ take_n = 0 /\ last_files = <<>>
    /\ TrackerIdle /\ AppIdle
    /\ old = Idle /\ new = Idle /\ changes = <<>> /\ edits = <<>>
    /\ patch = Idle /\ parsed = NotParsed
    /\ buffer = original /\ pending = Idle
    /\ editor_cursor = cursor /\ marks = <<>> /\ history = <<>>

\* Coder::autocomplete from its start to the context: the cursor is converted to
\* a byte offset and build_context cuts the excerpt around it
BuildContext ==
    /\ pc = "start"
    /\ \E cursor_byte \in {offset_to_byte(cursor, original)} :
         IF IsPanic(cursor_byte)
         THEN pc' = "panic" /\ UNCHANGED context
         ELSE \E r \in {build_context(original, cursor_byte.val, context_lines)} :
                /\ context' = r
                /\ pc' = IF r.tag = "Ok" THEN "built" ELSE IF r.tag = "Err" THEN "failed"
                          ELSE "panic"
    /\ UNCHANGED <<completionVars, trackerVars, appVars, file_trackers, take_n, last_files,
                   context_lines>>

NextContext == BuildContext

SpecContext == InitContext /\ [][NextContext]_vars

-----------------------------------------------------------------------------
(* The patch parser on its own: parse_patch on every response built from the *)
(* four tokens and plain characters, in any order and number                 *)

Pieces == {STOKEN, DTOKEN, RTOKEN, CTOKEN, Str(<<97>>), Str(<<1103>>)}

RECURSIVE Concat(_)
Concat(q) == IF q = <<>> THEN <<>> ELSE Head(q) \o Concat(Tail(q))

Responses == {Concat(q) : q \in SeqsUpTo(Pieces, MaxPieces)}

InitParse ==
    /\ pc = "start"
    /\ ServicesIdle
    /\ patch \in Responses
    /\ cursor \in 0..MaxCursor
    /\ parsed = NotParsed
    /\ old = Idle /\ new = Idle /\ changes = <<>> /\ edits = <<>>
    /\ original = Idle /\ buffer = Idle /\ pending = Idle
    /\ editor_cursor = 0 /\ marks = <<>> /\ history = <<>>

\* let patch = self.parse_patch(&response, cursor)
ParsePatch ==
    /\ pc = "start"
    /\ UNCHANGED serviceVars
    /\ parsed' = parse_patch(patch, cursor)
    /\ pc' = "returned"
    /\ UNCHANGED <<old, new, changes, edits, patch, cursor, original, buffer, pending,
                   editor_cursor, marks, history>>

NextParse == ParsePatch

SpecParse == InitParse /\ [][NextParse]_vars
-----------------------------------------------------------------------------
(* One Tracker: updates with a few contents of one or two lines, time passing *)

MaxUpdates == 3

MaxLines == 2

TimeStep == 600

MaxTime == 2400

\* "a\n" and an unterminated "b"
TrackerLines == {<<97, 10>>, <<98>>}

\* the texts of at most MaxLines lines; only the last line may lack its line end
TrackerContents ==
    {c \in {Concat(q) : q \in SeqsUpTo(TrackerLines, MaxLines)} :
        Len(SplitLines(c)) <= MaxLines /\ \A i \in 1..(Len(c) - 1) : c[i] = 98 => c[i + 1] = 10}

InitTracker ==
    /\ pc = "created"
    /\ CompletionIdle
    /\ now = 0
    /\ \E initial \in TrackerContents : snapshots = Tracker_new(initial, now)
    /\ new_content = Idle /\ updates = 0 /\ summary = Idle
    /\ CoderIdle
    /\ AppIdle

\* tracker.update(c), the limit-th call at the latest
TrackerUpdate(c, limit) ==
    /\ updates < limit
    /\ updates' = updates + 1
    /\ new_content' = c
    /\ snapshots' = Tracker_update(snapshots, c, now)
    /\ pc' = IF update_returns_early(snapshots, c) THEN "skipped" ELSE "pushed"
    /\ summary' = Idle
    /\ UNCHANGED <<now, completionVars, coderVars, appVars>>

\* Instant::now() moves on by d seconds; the results of earlier calls are gone
TimePasses(d, limit) ==
    /\ now + d <= limit
    /\ now' = now + d
    /\ pc' = "waited"
    /\ new_content' = Idle /\ summary' = Idle
    /\ take_n' = 0 /\ last_files' = <<>>
    /\ UNCHANGED <<context_lines, context>>
    /\ UNCHANGED <<snapshots, updates, completionVars, file_trackers, appVars>>

\* Tracker::summarize_recent_edits
SummarizeRecentEdits ==
    /\ pc # "summarized"
    /\ LET maybe_oldest == oldest(snapshots)
       IN IF maybe_oldest.some /\ snapshots # <<>>
          THEN \E diff \in diff_lines(maybe_oldest.val, Last(snapshots).content) :
                  summary' = diff_without_unchanged(diff)
          ELSE summary' = <<>>
    /\ pc' = "summarized"
    /\ new_content' = Idle
    /\ UNCHANGED <<snapshots, now, updates, completionVars, coderVars, appVars>>

UpdateTracker == \E c \in TrackerContents : TrackerUpdate(c, MaxUpdates)

ClockTick == TimePasses(TimeStep, MaxTime)

NextTracker == UpdateTracker \/ ClockTick \/ SummarizeRecentEdits

SpecTracker == InitTracker /\ [][NextTracker]_vars

-----------------------------------------------------------------------------
(* One Tracker under a long run of saves, each with a content never seen before *)

MaxDistinct == 60

\* the content of the k-th save: one character, a different one for every k
Fresh(k) == <<48 + k>>

InitEviction ==
    /\ pc = "created"
    /\ CompletionIdle
    /\ now = 0
    /\ snapshots = Tracker_new(Fresh(0), now)
    /\ new_content = Idle /\ updates = 0 /\ summary = Idle
    /\ CoderIdle
    /\ AppIdle

UpdateFresh == TrackerUpdate(Fresh(updates + 1), MaxDistinct)

LongWait == TimePasses(max_age, 2 * max_age)

NextEviction == UpdateFresh \/ LongWait

SpecEviction == InitEviction /\ [][NextEviction]_vars

-----------------------------------------------------------------------------
(* The Coder's trackers: saves of a few files over time, and the ranking query *)

MaxSaves == 4

MaxFiles == 3

Paths == {"a.rs", "b.rs", "c.rs"}

CoderContents == {Str(<<97>>), Str(<<1103>>)}

InitCoder ==
    /\ pc = "created"
    /\ CompletionIdle
    /\ TrackerIdle
    /\ CoderIdle
    /\ AppIdle

\* coder.update(&path, &content)
CoderUpdate ==
    /\ updates < MaxSaves
    /\ updates' = updates + 1
    /\ \E path \in Paths, content \in CoderContents :
         file_trackers' = Coder_update(file_trackers, path, content, now)
    /\ pc' = "updated"
    /\ take_n' = 0 /\ last_files' = <<>>
    /\ UNCHANGED <<context_lines, context>>
    /\ UNCHANGED <<snapshots, now, new_content, summary, completionVars, appVars>>

\* coder.last_modified_files(n)
LastModifiedFiles ==
    /\ pc # "listed"
    /\ \E n \in 0..MaxFiles, iter \in HashMapOrders(file_trackers) :
         /\ take_n' = n
         /\ last_files' = last_modified_files(file_trackers, n, iter)
    /\ pc' = "listed"
    /\ UNCHANGED <<trackerVars, file_trackers, context_lines, context, completionVars, appVars>>

NextCoder == CoderUpdate \/ ClockTick \/ LastModifiedFiles

SpecCoder == InitCoder /\ [][NextCoder]_vars

-----------------------------------------------------------------------------
(* The application, src/app.rs: the event loop with its key, tree and watch     *)
(* handlers, the results of the autocomplete tasks it applies, and the tasks it *)
(* spawns on the runtime                                                        *)

MaxTasks == 2

MaxWatch == 2

MaxAppSaves == 1

MaxOpens == 1

MaxBuffer == 1

MaxHistory == 1

\* mpsc::channel(1)
autocomplete_capacity == 1

AppPaths == {"a.rs", "b.rs"}

\* what a file may hold when the application starts or after another program wrote it
AppContents == {Str(<<>>), Str(<<1103>>)}

\* the Mutex around the Coder: free, or held by a task
LockFree == [holder |-> "none"]

LockedByTask(id) == [holder |-> "task", id |-> id]

\* a task that has not finished and was not aborted
Running == {"waiting", "chatting", "sending"}

\* a request whose result the event loop has not handled yet: its task runs, or
\* has sent the result to the channel
Pending == Running \cup {"done"}

\* the event loop is between two events: it waits for no lock and has not panicked
MainReady == pc \notin {"save_wait", "open_wait", "panic"}

\* a task from the spawn on: what its future captured, and its result once it has one
Task(state, content, cur, result, cancelled) ==
    [state |-> state, content |-> content, cursor |-> cur, result |-> result,
     cancelled |-> cancelled]

\* a task whose future was dropped, with all it held
Finished(state, cancelled) == Task(state, Idle, 0, NotParsed, cancelled)

\* notify::Event of kind Modify(Data) for the paths ps; cause notes who wrote the
\* file, which the event itself does not tell
ModifyEvent(ps, cause) == [kind |-> "ModifyData", paths |-> ps, cause |-> cause]

\* self.autocomplete_handle.take().map(|h| h.abort()): the tasks afterwards; a
\* task that has finished is not touched.  cancelled notes that a keystroke
\* cancelled the request while its result was not handled yet.
AbortHandle(ts, handle) ==
    IF ~handle.some THEN ts
    ELSE IF ts[handle.val].state \in Running
         THEN [ts EXCEPT ![handle.val] = Finished("aborted", TRUE)]
         ELSE [ts EXCEPT ![handle.val].cancelled = @ \/ ts[handle.val].state \in Pending]

\* an aborted task drops its MutexGuard: the lock afterwards
LockAfterAbort(lock, ts, handle) ==
    IF handle.some /\ ts[handle.val].state \in Running /\ lock = LockedByTask(handle.val)
    THEN LockFree
    ELSE lock

\* what coder.autocomplete may return for a content and a cursor: an error, or
\* the insertion of a character at the cursor
TaskResults(content, cur) ==
    {[tag |-> "Err"], [tag |-> "Ok", val |-> <<Edit(cur, cur, <<97>>, "Insert")>>]}

InitApp ==
    /\ pc = "started"
    /\ old = Idle /\ new = Idle /\ changes = <<>> /\ edits = <<>>
    /\ patch = Idle /\ cursor = 0 /\ parsed = NotParsed
    /\ original = Idle /\ pending = Idle
    /\ editor_cursor = 0 /\ marks = <<>> /\ history = <<>>
    /\ TrackerIdle
    /\ take_n = 0 /\ last_files = <<>>
    /\ context_lines = 0 /\ context = NoContext
    /\ filename = "a.rs"
    /\ disk \in [AppPaths -> AppContents]
    /\ buffer = disk[filename]
    /\ file_trackers = Coder_update(<<>>, filename, buffer, now)
    /\ self_update = FALSE /\ watch_rx = <<>>
    /\ tasks = <<>> /\ autocomplete_handle = None /\ autocomplete_rx = <<>>
    /\ coder_lock = LockFree
    /\ opened_editors = <<>> /\ opening = None /\ opens = 0 /\ watched = 0
    /\ SearchIdle

\* handle_event, the autocomplete key: spawn_autocomplete_task
KeyAutocomplete ==
    /\ MainReady
    /\ Len(tasks) < MaxTasks
    /\ tasks' = Append(tasks, Task("waiting", buffer, editor_cursor, NotParsed, FALSE))
    /\ autocomplete_handle' = Some(Len(tasks) + 1)
    /\ pc' = "ready"
    /\ UNCHANGED <<completionVars, trackerVars, coderVars, filename, disk, self_update,
                   watch_rx, autocomplete_rx, coder_lock, opened_editors, opening, opens, watched, searchVars>>

\* handle_editor_event, a character key: the pending task is aborted; marks are
\* removed and the batch behind them is undone; the editor takes the key, here at
\* the end of the text
KeyInput ==
    /\ MainReady
    /\ tasks' = AbortHandle(tasks, autocomplete_handle)
    /\ coder_lock' = LockAfterAbort(coder_lock, tasks, autocomplete_handle)
    /\ autocomplete_handle' = None
    /\ \E u \in {IF marks # <<>> THEN Undo(Editor(buffer, editor_cursor, <<>>, history))
                 ELSE Some(Editor(buffer, editor_cursor, <<>>, history))} :
         IF ~u.some
         THEN pc' = "panic" /\ UNCHANGED <<buffer, editor_cursor, marks, history>>
         ELSE LET n == CharCount(u.val.content)
              IN /\ n < MaxBuffer
                 /\ Len(u.val.history) < MaxHistory
                 /\ buffer' = u.val.content \o <<97>>
                 /\ editor_cursor' = n + 1
                 /\ marks' = <<>>
                 /\ history' = Append(u.val.history,
                                      EditBatch(<<Edit(n, n, <<97>>, "Insert")>>,
                                                u.val.cursor, n + 1))
                 /\ pc' = "ready"
    /\ UNCHANGED <<old, new, changes, edits, patch, cursor, parsed, original, pending,
                   trackerVars, coderVars, filename, disk, self_update, watch_rx,
                   autocomplete_rx, opened_editors, opening, opens, watched, searchVars>>

\* handle_editor_event, Tab or Enter while the editor shows marks: the completion
\* is accepted, the marks go
KeyAccept ==
    /\ MainReady
    /\ marks # <<>>
    /\ tasks' = AbortHandle(tasks, autocomplete_handle)
    /\ coder_lock' = LockAfterAbort(coder_lock, tasks, autocomplete_handle)
    /\ autocomplete_handle' = None
    /\ marks' = <<>>
    /\ pc' = "ready"
    /\ UNCHANGED <<old, new, changes, edits, patch, cursor, parsed, original, buffer, pending,
                   editor_cursor, history, trackerVars, coderVars, filename, disk,
                   self_update, watch_rx, autocomplete_rx, opened_editors, opening, opens, watched, searchVars>>

\* handle_editor_event, Esc: the pending task is aborted; with marks on display
\* they are removed and the last batch is undone
KeyEsc ==
    /\ MainReady
    /\ tasks' = AbortHandle(tasks, autocomplete_handle)
    /\ coder_lock' = LockAfterAbort(coder_lock, tasks, autocomplete_handle)
    /\ autocomplete_handle' = None
    /\ IF marks = <<>>
       THEN pc' = "ready" /\ UNCHANGED <<buffer, editor_cursor, marks, history>>
       ELSE \E u \in {Undo(Editor(buffer, editor_cursor, <<>>, history))} :
              IF ~u.some
              THEN pc' = "panic" /\ UNCHANGED <<buffer, editor_cursor, marks, history>>
              ELSE /\ buffer' = u.val.content
                   /\ editor_cursor' = u.val.cursor
                   /\ marks' = <<>>
                   /\ history' = u.val.history
                   /\ pc' = "ready"
    /\ UNCHANGED <<old, new, changes, edits, patch, cursor, parsed, original, pending,
                   trackerVars, coderVars, filename, disk, self_update, watch_rx,
                   autocomplete_rx, opened_editors, opening, opens, watched, searchVars>>

\* handle_editor_event, the save key, up to self.coder.lock().await: the pending
\* task is aborted and the content is written to the file, which the watcher sees
KeySaveBegin ==
    /\ MainReady
    /\ updates < MaxAppSaves
    /\ watched < MaxWatch
    /\ watched' = watched + 1
    /\ tasks' = AbortHandle(tasks, autocomplete_handle)
    /\ coder_lock' = LockAfterAbort(coder_lock, tasks, autocomplete_handle)
    /\ autocomplete_handle' = None
    /\ disk' = [disk EXCEPT ![filename] = buffer]
    /\ watch_rx' = Append(watch_rx, ModifyEvent({filename}, "save"))
    /\ pc' = "save_wait"
    /\ UNCHANGED <<completionVars, trackerVars, coderVars, filename, self_update,
                   autocomplete_rx, opened_editors, opening, opens, searchVars>>

\* the save key, from the lock on: coder.update and self_update = true
KeySaveLocked ==
    /\ pc = "save_wait"
    /\ coder_lock = LockFree
    /\ file_trackers' = Coder_update(file_trackers, filename, buffer, now)
    /\ self_update' = TRUE
    /\ updates' = updates + 1
    /\ pc' = "saved"
    /\ UNCHANGED <<completionVars, snapshots, now, new_content, summary, take_n, last_files, context_lines, context,
                   filename, disk, watch_rx, tasks, autocomplete_handle, autocomplete_rx,
                   coder_lock, opened_editors, opening, opens, watched, searchVars>>

\* handle_tree_event on a file of the tree, open_file up to self.coder.lock().await:
\* the file's editor is taken from opened_editors or made from the file, and
\* swapped with the current one; no task is aborted
OpenFileBegin ==
    /\ MainReady
    /\ opens < MaxOpens
    /\ \E path \in AppPaths \ {filename} :
         LET new_editor == IF path \in DOMAIN opened_editors THEN opened_editors[path]
                           ELSE Editor_new(disk[path])
             kept == [p \in (DOMAIN opened_editors \ {path}) \cup {filename} |->
                        IF p = filename THEN Editor(buffer, editor_cursor, marks, history)
                        ELSE opened_editors[p]]
         IN /\ opened_editors' = kept
            /\ buffer' = new_editor.content
            /\ editor_cursor' = new_editor.cursor
            /\ marks' = new_editor.marks
            /\ history' = new_editor.history
            /\ opening' = Some(path)
    /\ pc' = "open_wait"
    /\ UNCHANGED <<old, new, changes, edits, patch, cursor, parsed, original, pending,
                   trackerVars, coderVars, filename, disk, self_update, watch_rx, tasks,
                   autocomplete_handle, autocomplete_rx, coder_lock, opens, watched, searchVars>>

\* open_file from the lock on: coder.update for the file, which becomes the open one
OpenFileLocked ==
    /\ pc = "open_wait"
    /\ coder_lock = LockFree
    /\ file_trackers' = Coder_update(file_trackers, opening.val, buffer, now)
    /\ filename' = opening.val
    /\ opening' = None
    /\ opens' = opens + 1
    /\ pc' = "ready"
    /\ UNCHANGED <<completionVars, trackerVars, take_n, last_files, context_lines, context, disk, self_update,
                   watch_rx, tasks, autocomplete_handle, autocomplete_rx, coder_lock,
                   opened_editors, watched, searchVars>>

\* another program writes a file and the watcher queues the event
ExternalModify ==
    /\ pc # "panic"
    /\ watched < MaxWatch
    /\ watched' = watched + 1
    /\ \E path \in AppPaths :
         /\ watch_rx' = Append(watch_rx, ModifyEvent({path}, "external"))
         /\ \E content \in AppContents \ {disk[path]} :
              disk' = [disk EXCEPT ![path] = content]
    /\ UNCHANGED <<pc, completionVars, trackerVars, coderVars, filename, self_update, tasks,
                   autocomplete_handle, autocomplete_rx, coder_lock, opened_editors,
                   opening, opens, searchVars>>

\* App::handle_watch_event on the next event of the watcher's channel; set_content
\* replaces the text, and the editor keeps its cursor within the text it is given
HandleWatchEvent ==
    /\ MainReady
    /\ watch_rx # <<>>
    /\ watch_rx' = Tail(watch_rx)
    /\ IF self_update
       THEN self_update' = FALSE /\ pc' = "ready" /\ UNCHANGED <<buffer, editor_cursor>>
       ELSE IF filename \in Head(watch_rx).paths
            THEN /\ buffer' = disk[filename]
                 /\ editor_cursor' = Min(editor_cursor, CharCount(disk[filename]))
                 /\ self_update' = FALSE
                 /\ pc' = "reloaded"
            ELSE pc' = "ready" /\ UNCHANGED <<buffer, editor_cursor, self_update>>
    /\ UNCHANGED <<old, new, changes, edits, patch, cursor, parsed, original, pending,
                   marks, history, trackerVars, coderVars, filename, disk, tasks,
                   autocomplete_handle, autocomplete_rx, coder_lock, opened_editors,
                   opening, opens, watched, searchVars>>

\* the next result of the channel: handle_autocomplete prints an error; for edits
\* apply_edits applies them as one batch to the editor, moves the cursor to the
\* end of the last changed range and sets the marks
HandleAutocomplete ==
    /\ MainReady
    /\ autocomplete_rx # <<>>
    /\ autocomplete_rx' = Tail(autocomplete_rx)
    /\ LET msg == Head(autocomplete_rx)
           result == msg.result
       IN IF result.tag = "Err"
          THEN /\ tasks' = [tasks EXCEPT ![msg.task] = Finished("reported", @.cancelled)]
               /\ pc' = "reported"
               /\ UNCHANGED <<buffer, editor_cursor, marks, history>>
          ELSE IF result.val = <<>>
          THEN /\ tasks' = [tasks EXCEPT ![msg.task] = Finished("applied", @.cancelled)]
               /\ pc' = "applied"
               /\ UNCHANGED <<buffer, editor_cursor, marks, history>>
          ELSE \E b \in {ApplyAll(buffer, result.val)} :
                 LET changed_ranges == compute_changed_ranges_normalized(result.val)
                 IN IF ~b.some
                    THEN /\ pc' = "panic"
                         /\ UNCHANGED <<buffer, editor_cursor, marks, history, tasks>>
                    ELSE /\ buffer' = b.val
                         /\ editor_cursor' = Last(changed_ranges).end
                         /\ marks' = changed_ranges
                         /\ history' = Append(history,
                                              EditBatch(result.val, editor_cursor,
                                                        Last(changed_ranges).end))
                         /\ tasks' = [tasks EXCEPT ![msg.task] = Finished("applied", @.cancelled)]
                         /\ pc' = "applied"
    /\ UNCHANGED <<old, new, changes, edits, patch, cursor, parsed, original, pending,
                   trackerVars, coderVars, filename, disk, self_update, watch_rx,
                   autocomplete_handle, coder_lock, opened_editors, opening, opens, watched, searchVars>>

\* a task gets the lock: let coder = coder.lock().await
TaskLocks ==
    \E id \in 1..Len(tasks) :
      /\ pc # "panic"
      /\ tasks[id].state = "waiting"
      /\ coder_lock = LockFree
      /\ coder_lock' = LockedByTask(id)
      /\ tasks' = [tasks EXCEPT ![id].state = "chatting"]
      /\ UNCHANGED <<pc, completionVars, trackerVars, coderVars, filename, disk, self_update,
                     watch_rx, autocomplete_handle, autocomplete_rx, opened_editors,
                     opening, opens, watched, searchVars>>

\* coder.autocomplete(&content, &filename, cursor).await returns
TaskCompletes ==
    \E id \in 1..Len(tasks) :
      /\ pc # "panic"
      /\ tasks[id].state = "chatting"
      /\ \E result \in TaskResults(tasks[id].content, tasks[id].cursor) :
           tasks' = [tasks EXCEPT ![id].state = "sending", ![id].result = result]
      /\ UNCHANGED <<pc, completionVars, trackerVars, coderVars, filename, disk, self_update,
                     watch_rx, autocomplete_handle, autocomplete_rx, coder_lock,
                     opened_editors, opening, opens, watched, searchVars>>

\* tx.send(result).await goes through, the task ends and drops the lock; the
\* content its request was made for stays on record until the result is handled
TaskSends ==
    \E id \in 1..Len(tasks) :
      /\ pc # "panic"
      /\ tasks[id].state = "sending"
      /\ Len(autocomplete_rx) < autocomplete_capacity
      /\ autocomplete_rx' = Append(autocomplete_rx, [task |-> id, result |-> tasks[id].result])
      /\ tasks' = [tasks EXCEPT ![id] = Task("done", @.content, 0, NotParsed, @.cancelled)]
      /\ coder_lock' = LockFree
      /\ UNCHANGED <<pc, completionVars, trackerVars, coderVars, filename, disk, self_update,
                     watch_rx, autocomplete_handle, opened_editors, opening, opens, watched, searchVars>>

NextApp ==
    \/ KeyAutocomplete
    \/ KeyInput
    \/ KeyAccept
    \/ KeyEsc
    \/ KeySaveBegin
    \/ KeySaveLocked
    \/ OpenFileBegin
    \/ OpenFileLocked
    \/ ExternalModify
    \/ HandleWatchEvent
    \/ HandleAutocomplete
    \/ TaskLocks
    \/ TaskCompletes
    \/ TaskSends

SpecApp == InitApp /\ [][NextApp]_vars

-----------------------------------------------------------------------------
(* The search panel, src/search.rs and src/app.rs: searches in the open file,  *)
(* global searches on the blocking pool, jumps to a result, and the editor keys *)

MaxSearches == 2

\* what the user may search for: "a" or the two-byte Cyrillic letter
Queries == {Str(<<97>>), Str(<<1103>>)}

SearchResult(match_start, match_end, file_path) ==
    [match_start |-> match_start, match_end |-> match_end, file_path |-> file_path]

RECURSIVE MatchesFrom(_, _, _, _)
\* the loop of search_matches, literal path: the matches from start_byte on, one
\* behind the other, their offsets counted in characters
MatchesFrom(content, search_query, start_byte, file_path) ==
    LET pos == Find(SubSeq(content, start_byte + 1, Len(content)), search_query)
    IN IF ~pos.some THEN <<>>
       ELSE LET match_start_byte == start_byte + pos.val
                match_end_byte == match_start_byte + Len(search_query)
                match_start_char == CharCount(SubSeq(content, 1, match_start_byte))
                match_end_char == match_start_char + CharCount(search_query)
            IN <<SearchResult(match_start_char, match_end_char, file_path)>>
               \o MatchesFrom(content, search_query, match_end_byte, file_path)

\* search_matches(content, .., search_query, file_path, ..) without regex_mode
search_matches(content, search_query, file_path) ==
    MatchesFrom(content, search_query, 0, file_path)

\* the mark of a search result: (match_start, match_end, "#585858")
SearchMark(result) == ChangedRange(result.match_start, result.match_end, "#585858")

\* the updates a global search sends; search notes the task that sent it, which
\* the update itself does not tell
Progress(search, processed, total) ==
    [kind |-> "Progress", search |-> search, processed |-> processed, total |-> total]

Results(search, rs) == [kind |-> "Results", search |-> search, results |-> rs]

SearchFinished(search, files_processed) ==
    [kind |-> "Finished", search |-> search, files_processed |-> files_processed]

\* the files a global search reads, sorted by depth and name
SearchFiles == <<"a.rs", "b.rs">>

\* handle_editor_event, Ctrl+F: the search panel is shown and takes the focus
ActivateSearch ==
    /\ MainReady
    /\ ~left_panel_focused
    /\ left_panel_focused' = TRUE
    /\ UNCHANGED <<pc, completionVars, trackerVars, coderVars, filename, disk, self_update,
                   watch_rx, tasks, autocomplete_handle, autocomplete_rx, coder_lock,
                   opened_editors, opening, opens, watched, search_panel, search_handle,
                   search_tasks, search_rx>>

\* handle_event, Ctrl+T while the panel is shown: it is hidden and the editor has
\* the focus again; the editor keeps its marks
HidePanel ==
    /\ MainReady
    /\ left_panel_focused
    /\ left_panel_focused' = FALSE
    /\ UNCHANGED <<pc, completionVars, trackerVars, coderVars, filename, disk, self_update,
                   watch_rx, tasks, autocomplete_handle, autocomplete_rx, coder_lock,
                   opened_editors, opening, opens, watched, search_panel, search_handle,
                   search_tasks, search_rx>>

\* handle_search_event, a key that changes the query in Search mode:
\* process_search_action(UpdateSearch) calls search_panel.search(content)
SearchInFile ==
    /\ MainReady
    /\ left_panel_focused
    /\ \E query \in Queries :
         LET rs == search_matches(buffer, query, None)
         IN search_panel' = [search_panel EXCEPT
                               !.results = rs,
                               !.selected = IF rs = <<>> THEN None ELSE Some(0)]
    /\ UNCHANGED <<pc, completionVars, trackerVars, coderVars, filename, disk, self_update,
                   watch_rx, tasks, autocomplete_handle, autocomplete_rx, coder_lock,
                   opened_editors, opening, opens, watched, left_panel_focused,
                   search_handle, search_tasks, search_rx>>

\* handle.abort() on a task of spawn_blocking: it is cancelled only if it has not
\* started to run
AbortSearch(ts, handle) ==
    IF handle.some /\ ts[handle.val].state = "queued"
    THEN [ts EXCEPT ![handle.val].state = "aborted"]
    ELSE ts

\* handle_search_event, Ctrl+G with a query: process_search_action(UpdateSearch)
\* in GlobalSearch mode aborts the search before, clears the results and spawns
\* the new search
SearchGlobally ==
    /\ MainReady
    /\ left_panel_focused
    /\ Len(search_tasks) < MaxSearches
    /\ \E query \in Queries :
         search_tasks' = Append(AbortSearch(search_tasks, search_handle),
                                [state |-> "queued", query |-> query])
    /\ search_handle' = Some(Len(search_tasks) + 1)
    /\ search_panel' = [search_panel EXCEPT
                          !.results = <<>>, !.selected = None,
                          !.search_in_progress = TRUE, !.search_progress = None]
    /\ UNCHANGED <<pc, completionVars, trackerVars, coderVars, filename, disk, self_update,
                   watch_rx, tasks, autocomplete_handle, autocomplete_rx, coder_lock,
                   opened_editors, opening, opens, watched, left_panel_focused, search_rx>>

\* handle_search_event, a click on a result of the open file:
\* process_search_action(JumpTo(result)) moves the cursor to the match and marks it
JumpTo ==
    /\ MainReady
    /\ left_panel_focused
    /\ \E i \in 1..Len(search_panel.results) :
         LET result == search_panel.results[i]
         IN /\ ~result.file_path.some
            /\ search_panel' = [search_panel EXCEPT !.selected = Some(i - 1)]
            /\ editor_cursor' = result.match_start
            /\ marks' = <<SearchMark(result)>>
    /\ UNCHANGED <<pc, old, new, changes, edits, patch, cursor, parsed, original, buffer,
                   pending, history, trackerVars, coderVars, filename, disk, self_update,
                   watch_rx, tasks, autocomplete_handle, autocomplete_rx, coder_lock,
                   opened_editors, opening, opens, watched, left_panel_focused,
                   search_handle, search_tasks, search_rx>>

\* a key for the editor while it has the focus
EditorKeyInput == ~left_panel_focused /\ KeyInput

EditorKeyEsc == ~left_panel_focused /\ KeyEsc

\* the closure of spawn_global_search starts on the blocking pool, lists the
\* files and sends the first Progress
SearchTaskStarts ==
    \E id \in 1..Len(search_tasks) :
      /\ search_tasks[id].state = "queued"
      /\ search_tasks' = [search_tasks EXCEPT ![id].state = "searching"]
      /\ search_rx' = Append(search_rx, Progress(id, 0, Len(SearchFiles)))
      /\ UNCHANGED <<pc, completionVars, trackerVars, coderVars, filename, disk, self_update,
                     watch_rx, tasks, autocomplete_handle, autocomplete_rx, coder_lock,
                     opened_editors, opening, opens, watched, search_panel,
                     left_panel_focused, search_handle>>

\* the one batch of files is searched: its results are sent if there are any,
\* and the Progress after them
SearchTaskSearches ==
    \E id \in 1..Len(search_tasks) :
      /\ search_tasks[id].state = "searching"
      /\ search_tasks' = [search_tasks EXCEPT ![id].state = "searched"]
      /\ LET search_query == search_tasks[id].query
             batch_results ==
                 Concat([i \in 1..Len(SearchFiles) |->
                           search_matches(disk[SearchFiles[i]], search_query,
                                          Some(SearchFiles[i]))])
             progress == Progress(id, Len(SearchFiles), Len(SearchFiles))
         IN search_rx' = IF batch_results = <<>> THEN Append(search_rx, progress)
                         ELSE search_rx \o <<Results(id, batch_results), progress>>
      /\ UNCHANGED <<pc, completionVars, trackerVars, coderVars, filename, disk, self_update,
                     watch_rx, tasks, autocomplete_handle, autocomplete_rx, coder_lock,
                     opened_editors, opening, opens, watched, search_panel,
                     left_panel_focused, search_handle>>

\* the search sends Finished and its task ends
SearchTaskFinishes ==
    \E id \in 1..Len(search_tasks) :
      /\ search_tasks[id].state = "searched"
      /\ search_tasks' = [search_tasks EXCEPT ![id].state = "finished"]
      /\ search_rx' = Append(search_rx, SearchFinished(id, Len(SearchFiles)))
      /\ UNCHANGED <<pc, completionVars, trackerVars, coderVars, filename, disk, self_update,
                     watch_rx, tasks, autocomplete_handle, autocomplete_rx, coder_lock,
                     opened_editors, opening, opens, watched, search_panel,
                     left_panel_focused, search_handle>>

\* App::handle_search_update on the next update of the channel
HandleSearchUpdate ==
    /\ MainReady
    /\ search_rx # <<>>
    /\ search_rx' = Tail(search_rx)
    /\ LET update == Head(search_rx)
       IN IF update.kind = "Progress"
          THEN /\ search_panel' = [search_panel EXCEPT
                                     !.search_progress =
                                         Some(<<update.processed, update.total>>)]
               /\ UNCHANGED search_handle
          ELSE IF update.kind = "Results"
          THEN /\ search_panel' = [search_panel EXCEPT
                                     !.results = @ \o update.results,
                                     !.selected = IF @.some THEN @ ELSE Some(0)]
               /\ UNCHANGED search_handle
          ELSE /\ search_panel' = IF search_handle.some
                                  THEN [search_panel EXCEPT !.search_in_progress = FALSE,
                                                            !.search_progress = None]
                                  ELSE search_panel
               /\ search_handle' = None
    /\ UNCHANGED <<pc, completionVars, trackerVars, coderVars, filename, disk, self_update,
                   watch_rx, tasks, autocomplete_handle, autocomplete_rx, coder_lock,
                   opened_editors, opening, opens, watched, left_panel_focused, search_tasks>>

NextSearch ==
    \/ ActivateSearch
    \/ HidePanel
    \/ SearchInFile
    \/ SearchGlobally
    \/ JumpTo
    \/ EditorKeyInput
    \/ EditorKeyEsc
    \/ SearchTaskStarts
    \/ SearchTaskSearches
    \/ SearchTaskFinishes
    \/ HandleSearchUpdate

SpecSearch == InitApp /\ [][NextSearch]_vars

-----------------------------------------------------------------------------
(* Properties of parse_patch *)

RECURSIVE Count(_, _)
\* the number of occurrences of tok in s
Count(s, tok) ==
    LET f == Find(s, tok)
    IN IF ~f.some THEN 0 ELSE 1 + Count(SubSeq(s, f.val + Len(tok) + 1, Len(s)), tok)

Has(s, tok) == Find(s, tok).some

\* the byte offset of the first occurrence of a token that occurs
Pos(s, tok) == Find(s, tok).val

\* the text after the search-start token up to the divider (empty if the divider comes first)
SearchBlock(p) == SubSeq(p, Pos(p, STOKEN) + Len(STOKEN) + 1, Pos(p, DTOKEN))

\* the text that follows the divider
AfterDivider(p) == SubSeq(p, Pos(p, DTOKEN) + Len(DTOKEN) + 1, Len(p))

\* each marker once, in the order search-start, cursor, divide, replace-end
OnceInOrder(p) ==
    /\ \A tok \in {STOKEN, CTOKEN, DTOKEN, RTOKEN} : Count(p, tok) = 1
    /\ Pos(p, STOKEN) < Pos(p, CTOKEN)
    /\ Pos(p, CTOKEN) < Pos(p, DTOKEN)
    /\ Pos(p, DTOKEN) < Pos(p, RTOKEN)

\* a response in the wire format: the markers once and in order, the close token last
WellFormed(p) == OnceInOrder(p) /\ Pos(p, RTOKEN) + Len(RTOKEN) = Len(p)

\* the part of the search block of a well-formed response that precedes the sentinel
BeforeSentinel(p) == SubSeq(p, Pos(p, STOKEN) + Len(STOKEN) + 1, Pos(p, CTOKEN))

\* C7: on a well-formed response parse_patch returns start = cursor minus the
\* number of characters of the search block before the sentinel (saturating at 0),
\* search = the search block without the sentinel, replace = the replacement text.
C7_WellFormedParse ==
    (pc = "returned" /\ WellFormed(patch)) =>
      /\ parsed.tag = "Ok"
      /\ parsed.start = (IF cursor >= CharCount(BeforeSentinel(patch))
                         THEN cursor - CharCount(BeforeSentinel(patch)) ELSE 0)
      /\ parsed.search = BeforeSentinel(patch)
                           \o SubSeq(patch, Pos(patch, CTOKEN) + Len(CTOKEN) + 1, Pos(patch, DTOKEN))
      /\ parsed.replace = SubSeq(patch, Pos(patch, DTOKEN) + Len(DTOKEN) + 1, Pos(patch, RTOKEN))

\* a multi-byte character before the sentinel and a cursor behind it
C7_Witness ==
    /\ pc = "returned" /\ WellFormed(patch)
    /\ Len(BeforeSentinel(patch)) > CharCount(BeforeSentinel(patch))
    /\ parsed.tag = "Ok" /\ parsed.start > 0

NoSentinelInSearchBlock(p) ==
    ~(Has(p, STOKEN) /\ Has(p, DTOKEN) /\ Has(SearchBlock(p), CTOKEN))

LacksToken(p, tok) ==
    IF tok = CTOKEN THEN NoSentinelInSearchBlock(p) ELSE ~Has(p, tok)

\* C8: a response that lacks the search-start token, the divider, the close token,
\* or the sentinel inside its search block gets a parse error naming a missing token.
C8_MissingTokenIsError ==
    (pc = "returned" /\ \E tok \in {STOKEN, DTOKEN, RTOKEN, CTOKEN} : LacksToken(patch, tok)) =>
      /\ parsed.tag = "Err"
      /\ LacksToken(patch, parsed.missing)

\* C9: parse_patch never crashes, and returns a patch only when the four markers
\* each appear exactly once, in order.
C9_TotalAndStrict ==
    pc = "returned" =>
      /\ parsed.tag \in {"Ok", "Err"}
      /\ parsed.tag = "Ok" => OnceInOrder(patch)

\* C10: replace is the text between the divider and the close token that follows
\* it, sentinel removed; what follows the close token is not part of it.
C10_ReplaceEndsAtCloseToken ==
    (pc = "returned" /\ parsed.tag = "Ok" /\ Has(AfterDivider(patch), RTOKEN)) =>
      parsed.replace =
        RemoveAll(SubSeq(AfterDivider(patch), 1, Pos(AfterDivider(patch), RTOKEN)), CTOKEN)
-----------------------------------------------------------------------------
(* Properties of autocomplete and of the application of its edits *)

\* the parsed search text is the buffer's text at [start, start + len(search))
SearchMatchesBuffer ==
    /\ parsed.tag = "Ok"
    /\ parsed.start + CharCount(parsed.search) <= CharCount(original)
    /\ CharsBetween(original, parsed.start, parsed.start + CharCount(parsed.search))
         = Chars(parsed.search)

\* the buffer with the matched region replaced by the replacement text
RegionReplaced ==
    LET oc == Chars(original)
    IN Str(SubSeq(oc, 1, parsed.start) \o Chars(parsed.replace)
           \o SubSeq(oc, parsed.start + CharCount(parsed.search) + 1, Len(oc)))

\* the characters of s before the character offset n
Prefix(s, n) == SubSeq(Chars(s), 1, Min(n, CharCount(s)))

\* C2: when the search text is the buffer's text at start, applying the returned
\* edits one at a time, in the returned order and at their offsets as returned,
\* ends with the region replaced by replace, and no applied edit changes text
\* before the position of an edit that is still pending.
C2_ApplyInReturnedOrder ==
    /\ [](SearchMatchesBuffer =>
            /\ pc # "panic"
            /\ pc = "applied" => buffer = RegionReplaced)
    /\ [][(pc = "applying" /\ SearchMatchesBuffer) =>
            \A i \in 1..Len(pending') :
                Prefix(buffer', pending'[i].start) = Prefix(buffer, pending'[i].start)]_vars

\* edits at two different places of a region inside the buffer have been applied
C2_Witness ==
    /\ pc = "applied" /\ SearchMatchesBuffer
    /\ parsed.start > 0
    /\ \E i, j \in 1..Len(edits) : edits[i].start > edits[j].start

RECURSIVE Occurrences(_, _)
\* how often e occurs in the list es
Occurrences(es, e) ==
    IF es = <<>> THEN 0
    ELSE (IF Head(es) = e THEN 1 ELSE 0) + Occurrences(Tail(es), e)

\* C3: the returned list holds exactly the edits of compute_text_edits(search,
\* replace), start and end increased by the patch's start, and its starts never
\* increase from one edit to the next.
C3_ShiftedAndDescending ==
    pc = "computed" =>
      LET plain == compute_text_edits(parsed.search, changes).val
          shifted == [i \in 1..Len(plain) |->
                        Edit(plain[i].start + parsed.start, plain[i].end + parsed.start,
                             plain[i].text, plain[i].kind)]
      IN /\ Len(edits) = Len(plain)
         /\ \A i \in 1..Len(shifted) :
              Occurrences(edits, shifted[i]) = Occurrences(shifted, shifted[i])
         /\ \A i \in 1..(Len(edits) - 1) : edits[i].start >= edits[i + 1].start

\* a patch that does not start at offset 0 with edits at two different places
C3_Witness ==
    /\ pc = "computed"
    /\ parsed.start > 0
    /\ \E i, j \in 1..Len(edits) : edits[i].start > edits[j].start

\* C11: whatever the model answers, autocomplete fails or returns edits that lie
\* within the buffer (end <= the buffer's character count) and whose Delete edits
\* carry exactly the buffer's text at [start, end).
C11_AdversarialResponseSafe ==
    pc = "computed" =>
      \A i \in 1..Len(edits) :
        /\ edits[i].end <= CharCount(original)
        /\ edits[i].kind = "Delete" =>
             Chars(edits[i].text) = CharsBetween(original, edits[i].start, edits[i].end)

\* C12: autocomplete with a cursor behind the end of the content ends in an error
\* returned to the caller; the conversion of the offset never panics.
C12_OutOfBoundsIsRecoverable ==
    (cursor > CharCount(original) /\ pc # "start") => pc \in {"failed", "reported"}

\* the editor shows what it showed when the completion was requested
EditorUntouched ==
    /\ buffer = original
    /\ editor_cursor = cursor
    /\ marks = <<>>
    /\ history = <<>>

\* the attempt has ended without a patch, for a cursor inside the text: the
\* request to the model failed, or its answer was no patch
AttemptFailed ==
    /\ pc \notin {"start", "awaiting"}
    /\ parsed.tag # "Ok"
    /\ cursor <= CharCount(original)

\* C23: when an autocomplete attempt fails (the request fails, a token or the
\* sentinel is missing), the failure reaches the caller as an error value, and
\* the editor's content, cursor and marks are what they were before the attempt.
C23_FailureIsErrorValue ==
    /\ AttemptFailed => pc \in {"failed", "reported"}
    /\ pc \in {"failed", "reported"} => EditorUntouched

\* C24: a response whose search text, the sentinel removed, equals its replace
\* text makes autocomplete return Ok with an empty edit list, and applying the
\* empty list leaves content, cursor, undo history and marks as they were.
C24_EqualSearchAndReplaceIsNoOp ==
    (parsed.tag = "Ok" /\ parsed.search = parsed.replace) =>
      /\ pc \in {"computed", "applied"}
      /\ edits = <<>>
      /\ EditorUntouched

\* the empty list of a response with a search text equal to its replacement has
\* been applied
C24_Witness ==
    /\ pc = "applied"
    /\ parsed.tag = "Ok"
    /\ parsed.search # <<>>
    /\ parsed.search = parsed.replace

-----------------------------------------------------------------------------
(* Properties of build_context *)

\* the text with the sentinel at the cursor, in lines
SentinelLines == lines(insert_str(original, offset_to_byte(cursor, original).val, CTOKEN).val)

\* the index of the line that holds the sentinel
SentinelLine == CHOOSE i \in 1..Len(SentinelLines) : Find(SentinelLines[i], CTOKEN).some

\* C32: build_context returns consecutive whole lines that contain the sentinel
\* line, exactly min(2 * context_lines + 1, number of lines) of them: the window
\* has context_lines lines on either side of the cursor line, and lines that the
\* file lacks on one side are added on the other side.
C32_WindowKeepsItsSize ==
    pc # "start" =>
      /\ pc = "built"
      /\ LET count == Min(2 * context_lines + 1, Len(SentinelLines))
             first == IF SentinelLine - context_lines < 1 THEN 1
                      ELSE IF SentinelLine + context_lines > Len(SentinelLines)
                           THEN Len(SentinelLines) - count + 1
                      ELSE SentinelLine - context_lines
         IN /\ SentinelLine \in first..(first + count - 1)
            /\ context.context = join(SubSeq(SentinelLines, first, first + count - 1))

\* a window of five lines at the end of a file of six lines: the cursor line, and
\* four lines before it
C32_Witness ==
    /\ pc = "built"
    /\ context_lines = 2
    /\ Len(SentinelLines) = 6
    /\ SentinelLine = 6
    /\ Len(lines(context.context)) = 5

\* the excerpt without its sentinel
ExcerptText == RemoveAll(context.context, CTOKEN)

\* C33: the offset build_context returns is the character offset of the excerpt
\* in the original text, the cursor's character offset minus the position of the
\* sentinel in the excerpt: the excerpt without its sentinel is the original text
\* from that character offset on, multi-byte characters before the cursor or not.
C33_StartIsCharacterOffset ==
    pc = "built" =>
      /\ context.start = cursor - CharCount(SubSeq(context.context, 1,
                                                    Find(context.context, CTOKEN).val))
      /\ context.start + CharCount(ExcerptText) <= CharCount(original)
      /\ CharsBetween(original, context.start, context.start + CharCount(ExcerptText))
           = Chars(ExcerptText)

-----------------------------------------------------------------------------
(* Properties of the snapshot tracker *)

\* C15: update(c) with c equal to the content of the latest snapshot changes
\* nothing: the snapshot list keeps its length, its contents and its timestamps.
C15_SameContentIsNoOp ==
    [][(updates' = updates + 1 /\ snapshots # <<>> /\ new_content' = Last(snapshots).content)
         => snapshots' = snapshots]_vars

\* the latest content was saved again, some time after its snapshot was taken
C15_Witness ==
    /\ pc = "skipped"
    /\ Len(snapshots) >= 2
    /\ new_content = Last(snapshots).content
    /\ now > Last(snapshots).timestamp

\* C16: the tracker never holds more than max_versions snapshots, and those it
\* holds are the most recent saves in their order; as long as none is older than
\* max_age, max_versions or more distinct saves leave exactly the max_versions
\* most recent ones.
C16_RetainsMostRecent ==
    /\ Len(snapshots) <= max_versions
    /\ \A i \in 1..Len(snapshots) :
         snapshots[i].content = Fresh(updates - Len(snapshots) + i)
    /\ (updates >= max_versions /\ now <= max_age) => Len(snapshots) = max_versions

\* a tracker seeded and updated 60 times: the seed and the first 10 updates are gone
C16_Witness ==
    /\ updates = 60
    /\ Len(snapshots) = 50
    /\ snapshots[1].content = Fresh(11)
    /\ Last(snapshots).content = Fresh(60)

\* C31: after every update that appends a snapshot at time t, no retained
\* snapshot is older than max_age relative to t, the snapshots removed are a
\* prefix of the previous sequence, and the new snapshot is retained as the
\* last element.
C31_EvictionDropsOldPrefix ==
    [][(updates' = updates + 1 /\ pc' = "pushed") =>
         LET appended == Snapshot(now', new_content')
         IN /\ \A i \in 1..Len(snapshots') : now' - snapshots'[i].timestamp <= max_age
            /\ snapshots' # <<>> /\ Last(snapshots') = appended
            /\ \E k \in 0..Len(snapshots) :
                 snapshots' = SubSeq(snapshots, k + 1, Len(snapshots)) \o <<appended>>]_vars

\* an update 2400 s after the tracker was made has just dropped the first
\* snapshot for its age and kept the one that is exactly max_age old
C31_Witness ==
    /\ pc = "pushed"
    /\ Len(snapshots) >= 2
    /\ Last(snapshots).timestamp = now
    /\ snapshots[Len(snapshots) - 1].timestamp < now
    /\ snapshots[1].timestamp > 0
    /\ now - snapshots[1].timestamp = max_age

\* C36: a Tracker always holds at least one snapshot, after Tracker::new and
\* after any sequence of updates, evictions by age and by count included; and
\* the first Coder.update for a new path leaves that path's tracker with exactly
\* one snapshot, which holds the given content.
C36_TrackerNeverEmpty ==
    /\ snapshots # <<>>
    /\ LET content == Fresh(updates)
           after == Coder_update(("a.rs" :> snapshots), "b.rs", content, now)
       IN /\ after["b.rs"] = <<Snapshot(now, content)>>
          /\ after["a.rs"] = snapshots

\* sixty saves, of which the first fifty-nine were made at once and overflowed
\* the list, and the last one an hour later dropped all the others for their age
C36_Witness ==
    /\ pc = "pushed"
    /\ updates = 60
    /\ now = 2 * max_age
    /\ snapshots = <<Snapshot(now, Fresh(60))>>

\* the lines of a summary that carry the given mark, the mark taken off
MarkedLines(text, mark) ==
    LET marked == SelectSeq(SplitLines(text), LAMBDA l : l[1] = mark)
    IN [i \in 1..Len(marked) |-> Tail(marked[i])]

\* the lines of a text, the last one with its line end added if it has none
TerminatedLines(text) ==
    LET ls == SplitLines(text)
    IN [i \in 1..Len(ls) |-> DisplayChange(LineChange("Equal", ls[i]))]

RECURSIVE IsMerge(_, _, _)
\* o is an interleaving of k and m that keeps the order of both
IsMerge(k, m, o) ==
    IF o = <<>> THEN k = <<>> /\ m = <<>>
    ELSE \/ k # <<>> /\ Head(k) = Head(o) /\ IsMerge(Tail(k), m, Tail(o))
         \/ m # <<>> /\ Head(m) = Head(o) /\ IsMerge(k, Tail(m), Tail(o))

\* C17: summarize_recent_edits returns the line diff from the oldest retained
\* snapshot to the latest one: lines marked "-" that with some kept lines make up
\* the oldest content, lines marked "+" that with the same kept lines make up the
\* latest, as few as possible; it is empty with fewer than 2 snapshots or when
\* the two contents are equal.
C17_SummaryIsOldestToLatest ==
    pc = "summarized" =>
      LET first == snapshots[1].content
          last == Last(snapshots).content
          minus == MarkedLines(summary, 45)
          plus == MarkedLines(summary, 43)
          ol == TerminatedLines(first)
      IN /\ (Len(snapshots) < 2 \/ first = last) => summary = <<>>
         /\ \A i \in 1..Len(SplitLines(summary)) : SplitLines(summary)[i][1] \in {43, 45}
         /\ Len(minus) + Len(plus) = Distance(SplitLines(first), SplitLines(last))
         /\ \E kept \in SeqsUpTo({ol[i] : i \in 1..Len(ol)}, Len(ol)) :
              /\ IsMerge(kept, minus, ol)
              /\ IsMerge(kept, plus, TerminatedLines(last))

\* the content went from A to B and back to A
C17_Witness ==
    /\ pc = "summarized"
    /\ Len(snapshots) = 3
    /\ snapshots[1].content = snapshots[3].content
    /\ summary = <<>>

\* a summary with a removed and an added line between different contents
C17_WitnessDiff ==
    /\ pc = "summarized"
    /\ Len(snapshots) >= 2
    /\ MarkedLines(summary, 45) # <<>>
    /\ MarkedLines(summary, 43) # <<>>

\* the time of the latest snapshot of a tracked path
LatestTimestamp(path) == Last(file_trackers[path]).timestamp

\* C18: last_modified_files(n) returns min(n, number of tracked files) distinct
\* tracked paths, latest snapshot first, and no path left out has a latest
\* snapshot strictly newer than that of a returned path.
C18_LastModifiedFiles ==
    pc = "listed" =>
      LET tracked == DOMAIN file_trackers
          returned == {last_files[i] : i \in 1..Len(last_files)}
      IN /\ Len(last_files) = Min(take_n, Cardinality(tracked))
         /\ returned \subseteq tracked
         /\ Cardinality(returned) = Len(last_files)
         /\ \A i \in 1..(Len(last_files) - 1) :
              LatestTimestamp(last_files[i]) >= LatestTimestamp(last_files[i + 1])
         /\ \A out \in tracked \ returned : \A in \in returned :
              ~(LatestTimestamp(out) > LatestTimestamp(in))

\* three files saved at three different times, the two latest asked for
C18_Witness ==
    /\ pc = "listed"
    /\ Cardinality(DOMAIN file_trackers) = 3
    /\ take_n = 2
    /\ Len(last_files) = 2
    /\ \A p, q \in DOMAIN file_trackers : p # q => LatestTimestamp(p) # LatestTimestamp(q)

-----------------------------------------------------------------------------
(* Properties of the application *)

\* C19: after the application has saved the buffer, and after it has reloaded
\* the buffer because the file was modified externally, the latest snapshot of
\* the open file's tracker is the buffer's content.
C19_ContentChangesReachTracker ==
    pc \in {"saved", "reloaded"} =>
      /\ filename \in DOMAIN file_trackers
      /\ latest(file_trackers[filename]) = buffer

\* the autocomplete tasks that are in flight
InFlight == {id \in 1..Len(tasks) : tasks[id].state \in Running}

\* C20: at most one autocomplete request is in flight at any time: a request
\* that is pending when a new one is issued is cancelled.
C20_AtMostOneInFlight == Cardinality(InFlight) <= 1

\* C21: once a keystroke has cancelled a pending autocomplete request, no edit
\* of that request is applied to the buffer, whatever point its task had
\* reached, the result already queued on the channel included.
C21_CancelledNeverApplied ==
    \A id \in 1..Len(tasks) : tasks[id].cancelled => tasks[id].state # "applied"

\* the tasks that hold the coder lock for the round trip to the language model
RoundTrips == {id \in 1..Len(tasks) : tasks[id].state = "chatting" /\ coder_lock = LockedByTask(id)}

\* C22: the event loop never waits for an autocomplete request in flight: the
\* handler of a save or of an open-file event is never at its
\* self.coder.lock().await while a task holds the lock for its round trip.
C22_LoopNeverWaitsForRoundTrip ==
    pc \in {"save_wait", "open_wait"} => RoundTrips = {}

\* the tasks that hold the coder lock while tx.send waits for room in the channel
BlockedSenders ==
    {id \in 1..Len(tasks) :
        /\ tasks[id].state = "sending"
        /\ coder_lock = LockedByTask(id)
        /\ Len(autocomplete_rx) = autocomplete_capacity}

\* C34: the application never deadlocks on the coder lock: the event loop is
\* never at self.coder.lock().await, where it receives nothing, while the task
\* that holds the lock waits to send its result to the full channel.
C34_NoDeadlockOnCoderLock ==
    pc \in {"save_wait", "open_wait"} => BlockedSenders = {}

\* C39: handle_watch_event ignores a modify event only if the application's own
\* save caused it: an event of its own save never makes it reload the buffer,
\* and the event of an external modification of the open file is never skipped
\* but replaces the buffer with the file's content.
C39_OnlyOwnSaveIsIgnored ==
    [][(watch_rx # <<>> /\ watch_rx' = Tail(watch_rx)) =>
         LET event == Head(watch_rx)
         IN /\ self_update => event.cause = "save"
            /\ event.cause = "save" => pc' # "reloaded"
            /\ (event.cause = "external" /\ filename \in event.paths)
                 => buffer' = disk[filename]]_vars

\* C35: autocomplete edits are applied only to the content they were computed
\* from: whenever handle_autocomplete applies the edits of a request, the
\* editor's content is the content captured when the request was spawned.
C35_AppliedToCapturedContent ==
    [][\A id \in 1..Len(tasks) :
         (id <= Len(tasks') /\ tasks[id].state = "done" /\ tasks'[id].state = "applied")
           => buffer = tasks[id].content]_vars

-----------------------------------------------------------------------------
(* Properties of the search panel *)

\* the marks on the editor are those of a jump to a search result
SearchMarks == marks # <<>> /\ \A i \in 1..Len(marks) : marks[i].kind = "#585858"

\* C37: while the marks on the editor are those of a search jump, no key in the
\* editor undoes an edit: every batch of the history stays where it is
C37_SearchMarksNeverUndo ==
    [][SearchMarks =>
         /\ Len(history') >= Len(history)
         /\ SubSeq(history', 1, Len(history)) = history]_vars

\* C38: an update of a global search that is not the latest one neither changes
\* the results nor ends the progress state
C38_OnlyLatestSearchIsShown ==
    [][(search_rx # <<>> /\ search_rx' = Tail(search_rx)) =>
         (Head(search_rx).search # Len(search_tasks) =>
            /\ search_panel'.results = search_panel.results
            /\ search_panel'.search_in_progress = search_panel.search_in_progress)]_vars

====
